---- MODULE Spec2Model ----
(***************************************************************************)
(* cw1155: the multi-token ledger of packages/cw1155/src/execute.rs.       *)
(* One step of the model is one call of `execute`: a handler runs on the   *)
(* store, and the host commits its writes when it returns Ok and discards  *)
(* them when it returns Err (or panics).                                   *)
(***************************************************************************)
EXTENDS Integers, Sequences, FiniteSets, TLC

\* ---------------------------------------------------------------- bounds
\* Stand-in for Uint128::MAX: amounts are 0..U128Max, checked_add fails above it.
U128Max == 2
\* Block heights run 0..MaxHeight.
MaxHeight == 1
\* Longest batch of a *_batch message.
MaxBatchLen == 2
\* Largest amount of one line item of a batch.
MaxBatchAmount == 1
\* Number of committed calls of one run.
MaxCalls == 3
\* Most per-token approvals, and most blanket approvals, stored at one time.
MaxTokenApprovals == 1
MaxOperatorApprovals == 1

Addrs == {"alice", "bob", "carol"}
TokenIds == {"A", "B"}
\* the token ids that batches and approvals name
BatchTokenIds == {"A"}
Amounts == 0..U128Max

\* ---------------------------------------------------------------- options
\* Option<T> and an absent storage key: <<>> is None, <<v>> is Some(v).
None == <<>>
Some(v) == <<v>>
IsSome(o) == o # <<>>
Unwrap(o) == o[1]
Opt(S) == {None} \cup {Some(v) : v \in S}

Min(a, b) == IF a <= b THEN a ELSE b

\* ---------------------------------------------------------------- expiration
\* cw_utils::Expiration
Never == [kind |-> "never", v |-> 0]
AtHeight(h) == [kind |-> "at_height", v |-> h]
AtTime(t) == [kind |-> "at_time", v |-> t]
\* the expirations the messages carry; AtTime is AtHeight read on block.time
Expirations == {Never} \cup {AtHeight(h) : h \in 0..MaxHeight}

\* Expiration::is_expired(&self, block)
ExpirationIsExpired(e, block) ==
    CASE e.kind = "at_height" -> block.height >= e.v
      [] e.kind = "at_time" -> block.time >= e.v
      [] OTHER -> FALSE

\* TokenApproval { amount, expiration }
TokenApproval(amount, expiration) == [amount |-> amount, expiration |-> expiration]
\* TokenApproval::default(): zero amount, Expiration::Never
TokenApprovalDefault == TokenApproval(0, Never)
\* TokenApproval::is_expired(env)
ApprovalIsExpired(approval, block) == ExpirationIsExpired(approval.expiration, block)

\* ---------------------------------------------------------------- errors
Err(kind, detail, available, requested) ==
    [kind |-> kind, detail |-> detail, available |-> available, requested |-> requested]
ErrInvalidZeroAmount == Err("InvalidZeroAmount", "", 0, 0)
ErrExpired == Err("Expired", "", 0, 0)
ErrUnauthorized(reason) == Err("Unauthorized", reason, 0, 0)
ErrNotEnoughTokens(available, requested) == Err("NotEnoughTokens", "", available, requested)
\* Cw1155ContractError::Std(StdError::..)
ErrStdOverflow == Err("Std", "overflow", 0, 0)
ErrStdNotFound(what) == Err("Std", "not_found " \o what, 0, 0)
\* Cw1155ContractError::Ownership(OwnershipError::NotOwner)
ErrOwnershipNotOwner == Err("Ownership", "NotOwner", 0, 0)
\* Cw1155ContractError::EmptyUpdateRequest, NoUpdatesRequested { token_id }
ErrEmptyUpdateRequest == Err("EmptyUpdateRequest", "", 0, 0)
ErrNoUpdatesRequested(token_id) == Err("NoUpdatesRequested", token_id, 0, 0)

\* a Rust panic (unwrap of None, panic!): the call aborts
ErrPanic(what) == Err("Panic", what, 0, 0)
NoErr == Err("", "", 0, 0)

\* Result<_, Cw1155ContractError> of a handler, with the store as the handler left it
Ok(st, attrs) == [ok |-> TRUE, err |-> NoErr, st |-> st, attrs |-> attrs]
Fail(st, e) == [ok |-> FALSE, err |-> e, st |-> st, attrs |-> <<>>]

\* ---------------------------------------------------------------- store
\* Cw1155Config's maps, each a total function with None for an absent key:
\*   balances[<<owner, token_id>>]                 Option<amount of Balance>
\*   token_supplies[token_id]                      Option<Uint128>
\*   token_approves[<<token_id, owner, operator>>] Option<TokenApproval>
\*   approves[<<owner, operator>>]                 Option<Expiration>
\*   tokens[token_id]                              Option<TokenInfo>
BalanceKeys == Addrs \X TokenIds
TokenApproveKeys == TokenIds \X Addrs \X Addrs
ApproveKeys == Addrs \X Addrs

EmptyStore ==
    [balances |-> [k \in BalanceKeys |-> None],
     token_supplies |-> [t \in TokenIds |-> None],
     token_approves |-> [k \in TokenApproveKeys |-> None],
     approves |-> [k \in ApproveKeys |-> None],
     tokens |-> [t \in TokenIds |-> None]]

\* TokenAmount { token_id, amount }
TokenAmount(token_id, amount) == [token_id |-> token_id, amount |-> amount]
\* TokenInfo { token_uri, extension }
TokenInfo(token_uri, extension) == [token_uri |-> token_uri, extension |-> extension]

\* a missing balance or supply reads as zero
AmountOf(o) == IF IsSome(o) THEN Unwrap(o) ELSE 0

\* ---------------------------------------------------------------- events
\* event_action that names the entry point's flavour for one token, too
event_actionBatch(action, tokens) ==
    <<"action", action \o "_batch">>

\* event_action: "<action>_single" for exactly one token, "<action>_batch" otherwise
event_action(action, tokens) ==
    <<"action", action \o (IF Len(tokens) = 1 THEN "_single" ELSE "_batch")>>

\* token_attributes: the ids and the amounts of the tokens, in order (the
\* comma-joined strings are kept as the lists they join)
token_attributes(tokens) ==
    << <<(IF Len(tokens) = 1 THEN "token_id" ELSE "token_ids"),
         [i \in 1..Len(tokens) |-> tokens[i].token_id]>>,
       <<(IF Len(tokens) = 1 THEN "amount" ELSE "amounts"),
         [i \in 1..Len(tokens) |-> tokens[i].amount]>> >>

TransferEvent(sender, from, to, tokens) ==
    <<event_action("transfer", tokens), <<"owner", from>>, <<"sender", sender>>,
      <<"recipient", to>>>> \o token_attributes(tokens)
MintEvent(sender, to, tokens) ==
    <<event_action("mint", tokens), <<"sender", sender>>, <<"recipient", to>>>>
        \o token_attributes(tokens)
BurnEvent(sender, from, tokens) ==
    <<event_action("burn", tokens), <<"owner", from>>, <<"sender", sender>>>>
        \o token_attributes(tokens)

\* ---------------------------------------------------------------- supply
\* Cw1155Config::increment_tokens: supply(token_id) += amount, checked
increment_tokens(st, token_id, amount) ==
    LET val == AmountOf(st.token_supplies[token_id]) + amount IN
    IF val > U128Max THEN Fail(st, ErrStdOverflow)
    ELSE Ok([st EXCEPT !.token_supplies[token_id] = Some(val)], <<>>)

\* Cw1155Config::decrement_tokens: supply(token_id) -= amount, checked
decrement_tokens(st, token_id, amount) ==
    LET cur == AmountOf(st.token_supplies[token_id]) IN
    IF cur < amount THEN Fail(st, ErrStdOverflow)
    ELSE Ok([st EXCEPT !.token_supplies[token_id] = Some(cur - amount)], <<>>)

\* ---------------------------------------------------------------- update_balances
\* DebitLoop that computes every new balance from the balance before the call, so
\* that a token id listed twice is taken once
RECURSIVE DebitLoopStale(_, _, _, _, _)
DebitLoopStale(st0, st, from, tokens, i) ==
    IF i > Len(tokens) THEN Ok(st, <<>>)
    ELSE LET token_id == tokens[i].token_id
             amount == tokens[i].amount
             balance == st0.balances[<<from, token_id>>]
         IN IF amount = 0 THEN Fail(st, ErrInvalidZeroAmount)
            ELSE IF ~IsSome(balance) THEN Fail(st, ErrPanic("balance.unwrap()"))
            ELSE IF Unwrap(balance) < amount THEN Fail(st, ErrStdOverflow)
            ELSE DebitLoopStale(st0,
                    [st EXCEPT !.balances[<<from, token_id>>] = Some(Unwrap(balance) - amount)],
                    from, tokens, i + 1)
DebitLoopOnce(st, from, tokens, i) == DebitLoopStale(st, st, from, tokens, i)

\* DebitLoop that takes what is there when the balance is too small
RECURSIVE DebitLoopSaturating(_, _, _, _)
DebitLoopSaturating(st, from, tokens, i) ==
    IF i > Len(tokens) THEN Ok(st, <<>>)
    ELSE LET token_id == tokens[i].token_id
             amount == tokens[i].amount
             balance == st.balances[<<from, token_id>>]
         IN IF amount = 0 THEN Fail(st, ErrInvalidZeroAmount)
            ELSE IF ~IsSome(balance) THEN Fail(st, ErrPanic("balance.unwrap()"))
            ELSE DebitLoopSaturating(
                    [st EXCEPT !.balances[<<from, token_id>>] =
                        Some(IF Unwrap(balance) < amount THEN 0 ELSE Unwrap(balance) - amount)],
                    from, tokens, i + 1)

\* DebitLoop that unwraps the balance before it looks at the amount
RECURSIVE DebitLoopUnwrapsFirst(_, _, _, _)
DebitLoopUnwrapsFirst(st, from, tokens, i) ==
    IF i > Len(tokens) THEN Ok(st, <<>>)
    ELSE LET token_id == tokens[i].token_id
             amount == tokens[i].amount
             balance == st.balances[<<from, token_id>>]
         IN IF ~IsSome(balance) THEN Fail(st, ErrPanic("balance.unwrap()"))
            ELSE IF amount = 0 THEN Fail(st, ErrInvalidZeroAmount)
            ELSE IF Unwrap(balance) < amount THEN Fail(st, ErrStdOverflow)
            ELSE DebitLoopUnwrapsFirst(
                    [st EXCEPT !.balances[<<from, token_id>>] = Some(Unwrap(balance) - amount)],
                    from, tokens, i + 1)

\* first loop (from is Some): take every line item out of from's balance
RECURSIVE DebitLoop(_, _, _, _)
DebitLoop(st, from, tokens, i) ==
    IF i > Len(tokens) THEN Ok(st, <<>>)
    ELSE LET token_id == tokens[i].token_id
             amount == tokens[i].amount
             balance == st.balances[<<from, token_id>>]
         IN IF amount = 0 THEN Fail(st, ErrInvalidZeroAmount)
            ELSE IF ~IsSome(balance) THEN Fail(st, ErrPanic("balance.unwrap()"))
            ELSE IF Unwrap(balance) < amount THEN Fail(st, ErrStdOverflow)
            ELSE DebitLoop(
                    [st EXCEPT !.balances[<<from, token_id>>] = Some(Unwrap(balance) - amount)],
                    from, tokens, i + 1)

\* CreditLoop that stores the amount as the balance instead of adding it
RECURSIVE CreditLoopOverwrites(_, _, _, _)
CreditLoopOverwrites(st, to, tokens, i) ==
    IF i > Len(tokens) THEN Ok(st, <<>>)
    ELSE LET token_id == tokens[i].token_id
             amount == tokens[i].amount
         IN IF amount = 0 THEN Fail(st, ErrInvalidZeroAmount)
            ELSE CreditLoopOverwrites(
                    [st EXCEPT !.balances[<<to, token_id>>] = Some(amount)],
                    to, tokens, i + 1)

\* second loop (to is Some): add every line item to to's balance
RECURSIVE CreditLoop(_, _, _, _)
CreditLoop(st, to, tokens, i) ==
    IF i > Len(tokens) THEN Ok(st, <<>>)
    ELSE LET token_id == tokens[i].token_id
             amount == tokens[i].amount
             new_amount == AmountOf(st.balances[<<to, token_id>>]) + amount
         IN IF amount = 0 THEN Fail(st, ErrInvalidZeroAmount)
            ELSE IF new_amount > U128Max THEN Fail(st, ErrStdOverflow)
            ELSE CreditLoop(
                    [st EXCEPT !.balances[<<to, token_id>>] = Some(new_amount)],
                    to, tokens, i + 1)

\* ConsumeApproval with `<` for `<=`: an approval used up exactly is kept at zero
ConsumeApprovalStrict(st, block, sender, from, token_id, amount) ==
    LET key == <<token_id, from, sender>>
        approval == IF IsSome(st.token_approves[key]) THEN Unwrap(st.token_approves[key])
                    ELSE TokenApprovalDefault
    IN IF ApprovalIsExpired(approval, block) THEN Fail(st, ErrExpired)
       ELSE IF approval.amount < amount
            THEN Ok([st EXCEPT !.token_approves[key] = None], <<>>)
            ELSE Ok([st EXCEPT !.token_approves[key] =
                        Some(TokenApproval(approval.amount - amount, approval.expiration))], <<>>)

\* the approval bookkeeping of one line item, when from # info.sender
ConsumeApproval(st, block, sender, from, token_id, amount) ==
    LET key == <<token_id, from, sender>>
        approval == IF IsSome(st.token_approves[key]) THEN Unwrap(st.token_approves[key])
                    ELSE TokenApprovalDefault
    IN IF ApprovalIsExpired(approval, block) THEN Fail(st, ErrExpired)
       ELSE IF approval.amount <= amount
            THEN Ok([st EXCEPT !.token_approves[key] = None], <<>>)
            ELSE Ok([st EXCEPT !.token_approves[key] =
                        Some(TokenApproval(approval.amount - amount, approval.expiration))], <<>>)

\* SpendLoop that lowers the supply on a transfer too, and one that lets a spend
\* use up the operator's blanket approval
RECURSIVE SpendLoopBurnsAlways(_, _, _, _, _, _, _)
SpendLoopBurnsAlways(st, block, sender, from, to, tokens, i) ==
    IF i > Len(tokens) THEN Ok(st, <<>>)
    ELSE LET token_id == tokens[i].token_id
             amount == tokens[i].amount
         IN IF amount = 0 THEN Fail(st, ErrInvalidZeroAmount)
            ELSE LET r1 == IF from # sender
                           THEN ConsumeApproval(st, block, sender, from, token_id, amount)
                           ELSE Ok(st, <<>>)
                 IN IF ~r1.ok THEN r1
                    ELSE LET r2 == decrement_tokens(r1.st, token_id, amount)
                         IN IF ~r2.ok THEN r2
                            ELSE SpendLoopBurnsAlways(r2.st, block, sender, from, to, tokens, i + 1)

RECURSIVE SpendLoopDropsBlanket(_, _, _, _, _, _, _)
SpendLoopDropsBlanket(st, block, sender, from, to, tokens, i) ==
    IF i > Len(tokens) THEN Ok(st, <<>>)
    ELSE LET token_id == tokens[i].token_id
             amount == tokens[i].amount
         IN IF amount = 0 THEN Fail(st, ErrInvalidZeroAmount)
            ELSE LET r1 == IF from # sender
                           THEN ConsumeApproval([st EXCEPT !.approves[<<from, sender>>] = None],
                                                block, sender, from, token_id, amount)
                           ELSE Ok(st, <<>>)
                 IN IF ~r1.ok THEN r1
                    ELSE LET r2 == IF ~IsSome(to) THEN decrement_tokens(r1.st, token_id, amount)
                                   ELSE r1
                         IN IF ~r2.ok THEN r2
                            ELSE SpendLoopDropsBlanket(r2.st, block, sender, from, to, tokens, i + 1)

\* SpendLoop that leaves the supply alone when burning
RECURSIVE SpendLoopKeepsSupply(_, _, _, _, _, _, _)
SpendLoopKeepsSupply(st, block, sender, from, to, tokens, i) ==
    IF i > Len(tokens) THEN Ok(st, <<>>)
    ELSE LET token_id == tokens[i].token_id
             amount == tokens[i].amount
         IN IF amount = 0 THEN Fail(st, ErrInvalidZeroAmount)
            ELSE LET r1 == IF from # sender
                           THEN ConsumeApproval(st, block, sender, from, token_id, amount)
                           ELSE Ok(st, <<>>)
                 IN IF ~r1.ok THEN r1
                    ELSE SpendLoopKeepsSupply(r1.st, block, sender, from, to, tokens, i + 1)

\* SpendLoop that also drops the approvals from has granted on the tokens it moves
RECURSIVE SpendLoopClearsGrants(_, _, _, _, _, _, _)
SpendLoopClearsGrants(st, block, sender, from, to, tokens, i) ==
    IF i > Len(tokens) THEN Ok(st, <<>>)
    ELSE LET token_id == tokens[i].token_id
             amount == tokens[i].amount
         IN IF amount = 0 THEN Fail(st, ErrInvalidZeroAmount)
            ELSE LET r1 == IF from # sender
                           THEN ConsumeApproval(st, block, sender, from, token_id, amount)
                           ELSE Ok([st EXCEPT !.token_approves =
                                       [k \in DOMAIN st.token_approves |->
                                           IF k[1] = token_id /\ k[2] = from
                                           THEN None ELSE st.token_approves[k]]], <<>>)
                 IN IF ~r1.ok THEN r1
                    ELSE LET r2 == IF ~IsSome(to) THEN decrement_tokens(r1.st, token_id, amount)
                                   ELSE r1
                         IN IF ~r2.ok THEN r2
                            ELSE SpendLoopClearsGrants(r2.st, block, sender, from, to, tokens,
                                                       i + 1)

\* third loop (from is Some): deplete the approvals, and the supply when burning
RECURSIVE SpendLoop(_, _, _, _, _, _, _)
SpendLoop(st, block, sender, from, to, tokens, i) ==
    IF i > Len(tokens) THEN Ok(st, <<>>)
    ELSE LET token_id == tokens[i].token_id
             amount == tokens[i].amount
         IN IF amount = 0 THEN Fail(st, ErrInvalidZeroAmount)
            ELSE LET r1 == IF from # sender
                           THEN ConsumeApproval(st, block, sender, from, token_id, amount)
                           ELSE Ok(st, <<>>)
                 IN IF ~r1.ok THEN r1
                    ELSE LET r2 == IF ~IsSome(to) THEN decrement_tokens(r1.st, token_id, amount)
                                   ELSE r1
                         IN IF ~r2.ok THEN r2
                            ELSE SpendLoop(r2.st, block, sender, from, to, tokens, i + 1)

\* the mint loop (from is None, to is Some): raise the supply of every line item
RECURSIVE MintLoop(_, _, _)
MintLoop(st, tokens, i) ==
    IF i > Len(tokens) THEN Ok(st, <<>>)
    ELSE IF tokens[i].amount = 0 THEN Fail(st, ErrInvalidZeroAmount)
    ELSE LET r == increment_tokens(st, tokens[i].token_id, tokens[i].amount)
         IN IF ~r.ok THEN r ELSE MintLoop(r.st, tokens, i + 1)

\* update_balances(deps, env, info, from, to, tokens); from and to are Options
update_balances(st, block, sender, from, to, tokens) ==
    LET r1 == IF IsSome(from) THEN DebitLoop(st, Unwrap(from), tokens, 1) ELSE Ok(st, <<>>) IN
    IF ~r1.ok THEN r1 ELSE
    LET r2 == IF IsSome(to) THEN CreditLoop(r1.st, Unwrap(to), tokens, 1) ELSE r1 IN
    IF ~r2.ok THEN r2 ELSE
    IF IsSome(from) THEN
        LET r3 == SpendLoop(r2.st, block, sender, Unwrap(from), to, tokens, 1) IN
        IF ~r3.ok THEN r3
        ELSE IF IsSome(to)
             THEN IF Unwrap(from) = Unwrap(to)
                  THEN Fail(r3.st, ErrUnauthorized("Cannot send to self"))
                  ELSE Ok(r3.st, TransferEvent(sender, Unwrap(from), Unwrap(to), tokens))
             ELSE Ok(r3.st, BurnEvent(sender, Unwrap(from), tokens))
    ELSE IF IsSome(to) THEN
        LET r3 == MintLoop(r2.st, tokens, 1) IN
        IF ~r3.ok THEN r3 ELSE Ok(r3.st, MintEvent(sender, Unwrap(to), tokens))
    ELSE Fail(r2.st, ErrPanic("Invalid transfer: from and to cannot both be None"))

\* ---------------------------------------------------------------- authorization
\* Cw1155Config::verify_all_approval: a stored blanket approval that is not expired
verify_all_approval(st, block, owner, operator) ==
    /\ IsSome(st.approves[<<owner, operator>>])
    /\ ~ExpirationIsExpired(Unwrap(st.approves[<<owner, operator>>]), block)

\* get_active_token_approval that hands out an expired approval too
get_active_token_approvalAny(st, block, owner, operator, token_id) ==
    st.token_approves[<<token_id, owner, operator>>]

\* get_active_token_approval: Some(approval) when stored and not expired
get_active_token_approval(st, block, owner, operator, token_id) ==
    LET stored == st.token_approves[<<token_id, owner, operator>>] IN
    IF IsSome(stored) /\ ~ApprovalIsExpired(Unwrap(stored), block) THEN stored ELSE None

\* verify_approval reporting a missing approval as NotEnoughTokens{0, amount}
verify_approvalNotEnough(st, block, sender, owner, token_id, amount) ==
    LET operator == sender
        balance_update == TokenAmount(token_id, amount)
        owner_balance == AmountOf(st.balances[<<owner, token_id>>])
        token_approval == get_active_token_approval(st, block, owner, operator, token_id)
    IN IF owner = operator \/ verify_all_approval(st, block, owner, operator)
       THEN IF owner_balance < amount
            THEN Fail(st, ErrNotEnoughTokens(owner_balance, amount))
            ELSE Ok(st, <<balance_update>>)
       ELSE IF IsSome(token_approval)
            THEN LET available_amount == Min(Unwrap(token_approval).amount, owner_balance)
                 IN IF available_amount < amount
                    THEN Fail(st, ErrNotEnoughTokens(available_amount, amount))
                    ELSE Ok(st, <<balance_update>>)
            ELSE Fail(st, ErrNotEnoughTokens(0, amount))

\* verify_approval that bounds a per-token operator by the approval alone
verify_approvalApprovalOnly(st, block, sender, owner, token_id, amount) ==
    LET operator == sender
        balance_update == TokenAmount(token_id, amount)
        owner_balance == AmountOf(st.balances[<<owner, token_id>>])
        token_approval == get_active_token_approval(st, block, owner, operator, token_id)
    IN IF owner = operator \/ verify_all_approval(st, block, owner, operator)
       THEN IF owner_balance < amount
            THEN Fail(st, ErrNotEnoughTokens(owner_balance, amount))
            ELSE Ok(st, <<balance_update>>)
       ELSE IF IsSome(token_approval)
            THEN LET available_amount == Unwrap(token_approval).amount
                 IN IF available_amount < amount
                    THEN Fail(st, ErrNotEnoughTokens(available_amount, amount))
                    ELSE Ok(st, <<balance_update>>)
            ELSE Fail(st, ErrStdNotFound("approval"))

\* verify_approval that takes a stored blanket approval without looking at its
\* expiration
verify_approvalBlanketForever(st, block, sender, owner, token_id, amount) ==
    LET operator == sender
        balance_update == TokenAmount(token_id, amount)
        owner_balance == AmountOf(st.balances[<<owner, token_id>>])
        token_approval == get_active_token_approval(st, block, owner, operator, token_id)
    IN IF owner = operator \/ IsSome(st.approves[<<owner, operator>>])
       THEN IF owner_balance < amount
            THEN Fail(st, ErrNotEnoughTokens(owner_balance, amount))
            ELSE Ok(st, <<balance_update>>)
       ELSE IF IsSome(token_approval)
            THEN LET available_amount == Min(Unwrap(token_approval).amount, owner_balance)
                 IN IF available_amount < amount
                    THEN Fail(st, ErrNotEnoughTokens(available_amount, amount))
                    ELSE Ok(st, <<balance_update>>)
            ELSE Fail(st, ErrStdNotFound("approval"))

\* verify_approval: Ok carries the TokenAmount in attrs
verify_approval(st, block, sender, owner, token_id, amount) ==
    LET operator == sender
        balance_update == TokenAmount(token_id, amount)
        owner_balance == AmountOf(st.balances[<<owner, token_id>>])
        token_approval == get_active_token_approval(st, block, owner, operator, token_id)
    IN IF owner = operator \/ verify_all_approval(st, block, owner, operator)
       THEN IF owner_balance < amount
            THEN Fail(st, ErrNotEnoughTokens(owner_balance, amount))
            ELSE Ok(st, <<balance_update>>)
       ELSE IF IsSome(token_approval)
            THEN LET available_amount == Min(Unwrap(token_approval).amount, owner_balance)
                 IN IF available_amount < amount
                    THEN Fail(st, ErrNotEnoughTokens(available_amount, amount))
                    ELSE Ok(st, <<balance_update>>)
            ELSE Fail(st, ErrStdNotFound("approval"))

\* verify_approvals: verify_approval of every line item, the first error wins
RECURSIVE verify_approvals_from(_, _, _, _, _, _)
verify_approvals_from(st, block, sender, owner, tokens, i) ==
    IF i > Len(tokens) THEN Ok(st, <<>>)
    ELSE LET r == verify_approval(st, block, sender, owner, tokens[i].token_id, tokens[i].amount)
         IN IF ~r.ok THEN r
            ELSE LET rest == verify_approvals_from(st, block, sender, owner, tokens, i + 1)
                 IN IF ~rest.ok THEN rest ELSE Ok(st, r.attrs \o rest.attrs)

verify_approvals(st, block, sender, owner, tokens) ==
    verify_approvals_from(st, block, sender, owner, tokens, 1)

\* cw_ownable::assert_owner(storage, sender), as the handlers use it
assert_owner(st, minter, sender) ==
    IF sender = minter THEN Ok(st, <<>>) ELSE Fail(st, ErrOwnershipNotOwner)

\* ---------------------------------------------------------------- mint
\* Cw1155MintMsg { token_id, amount, token_uri, extension }
Cw1155MintMsg(token_id, amount, token_uri, extension) ==
    [token_id |-> token_id, amount |-> amount, token_uri |-> token_uri, extension |-> extension]

\* the token info saved at every mint
SaveTokenInfoAlways(st, msg) ==
    [st EXCEPT !.tokens[msg.token_id] = Some(TokenInfo(msg.token_uri, msg.extension))]

\* "store token info if not exist"
SaveTokenInfoIfAbsent(st, msg) ==
    IF ~IsSome(st.tokens[msg.token_id])
    THEN [st EXCEPT !.tokens[msg.token_id] = Some(TokenInfo(msg.token_uri, msg.extension))]
    ELSE st

\* mint without the assert_owner
mintUnguarded(st, minter, block, sender, recipient, msg) ==
    LET r == update_balances(st, block, sender, None, Some(recipient),
                             <<TokenAmount(msg.token_id, msg.amount)>>) IN
    IF ~r.ok THEN r ELSE Ok(SaveTokenInfoIfAbsent(r.st, msg), r.attrs)

\* mint(env, recipient, msg)
mint(st, minter, block, sender, recipient, msg) ==
    LET a == assert_owner(st, minter, sender) IN
    IF ~a.ok THEN a ELSE
    LET r == update_balances(st, block, sender, None, Some(recipient),
                             <<TokenAmount(msg.token_id, msg.amount)>>) IN
    IF ~r.ok THEN r ELSE Ok(SaveTokenInfoIfAbsent(r.st, msg), r.attrs)

\* the map of mint_batch: token infos are saved while the batch is built
RECURSIVE MintBatchInfos(_, _, _)
MintBatchInfos(st, msgs, i) ==
    IF i > Len(msgs) THEN st
    ELSE MintBatchInfos(SaveTokenInfoIfAbsent(st, msgs[i]), msgs, i + 1)

mint_batch(st, minter, block, sender, recipient, msgs) ==
    LET a == assert_owner(st, minter, sender) IN
    IF ~a.ok THEN a ELSE
    LET batch == [i \in 1..Len(msgs) |-> TokenAmount(msgs[i].token_id, msgs[i].amount)]
    IN update_balances(MintBatchInfos(st, msgs, 1), block, sender, None, Some(recipient), batch)

\* ---------------------------------------------------------------- send, burn
\* from: Option<String>, defaulting to info.sender
ResolveFrom(sender, from) == IF IsSome(from) THEN Unwrap(from) ELSE sender

send(st, block, sender, from, to, token_id, amount) ==
    LET from_addr == ResolveFrom(sender, from)
        v == verify_approval(st, block, sender, from_addr, token_id, amount)
    IN IF ~v.ok THEN v
       ELSE update_balances(st, block, sender, Some(from_addr), Some(to),
                            <<TokenAmount(token_id, v.attrs[1].amount)>>)

send_batch(st, block, sender, from, to, batch) ==
    LET from_addr == ResolveFrom(sender, from)
        v == verify_approvals(st, block, sender, from_addr, batch)
    IN IF ~v.ok THEN v
       ELSE update_balances(st, block, sender, Some(from_addr), Some(to), v.attrs)

\* burn that only the holder of the balance may call
burnOwnerOnly(st, block, sender, from, token_id, amount) ==
    LET from_addr == ResolveFrom(sender, from)
        v == verify_approval(st, block, sender, from_addr, token_id, amount)
    IN IF from_addr # sender THEN Fail(st, ErrUnauthorized("Only the owner can burn"))
       ELSE IF ~v.ok THEN v
       ELSE update_balances(st, block, sender, Some(from_addr), None,
                            <<TokenAmount(token_id, v.attrs[1].amount)>>)

burn(st, block, sender, from, token_id, amount) ==
    LET from_addr == ResolveFrom(sender, from)
        v == verify_approval(st, block, sender, from_addr, token_id, amount)
    IN IF ~v.ok THEN v
       ELSE update_balances(st, block, sender, Some(from_addr), None,
                            <<TokenAmount(token_id, v.attrs[1].amount)>>)

\* burn_batch that hands the from of the message to update_balances as it came
burn_batchUnresolved(st, block, sender, from, batch) ==
    LET from_addr == ResolveFrom(sender, from)
        v == verify_approvals(st, block, sender, from_addr, batch)
    IN IF ~v.ok THEN v
       ELSE update_balances(st, block, sender, from, None, v.attrs)

burn_batch(st, block, sender, from, batch) ==
    LET from_addr == ResolveFrom(sender, from)
        v == verify_approvals(st, block, sender, from_addr, batch)
    IN IF ~v.ok THEN v
       ELSE update_balances(st, block, sender, Some(from_addr), None, v.attrs)

\* ---------------------------------------------------------------- approvals
\* approve_token without the zero-amount check
approve_tokenAcceptsZero(st, block, sender, operator, token_id, approval_amount, expiration) ==
    LET exp == IF IsSome(expiration) THEN Unwrap(expiration) ELSE Never IN
    IF ExpirationIsExpired(exp, block) THEN Fail(st, ErrExpired)
    ELSE IF sender = operator THEN Fail(st, ErrUnauthorized("Operator cannot be the owner"))
    ELSE Ok([st EXCEPT !.token_approves[<<token_id, sender, operator>>] =
                Some(TokenApproval(approval_amount, exp))],
            << <<"action", "approve_single">>, <<"sender", sender>>, <<"operator", operator>>,
               <<"token_id", token_id>>, <<"amount", approval_amount>> >>)

\* approve_token that adds the amount to the stored approval
approve_tokenAdds(st, block, sender, operator, token_id, approval_amount, expiration) ==
    LET exp == IF IsSome(expiration) THEN Unwrap(expiration) ELSE Never
        key == <<token_id, sender, operator>>
        prev == IF IsSome(st.token_approves[key]) THEN Unwrap(st.token_approves[key]).amount
                ELSE 0
    IN
    IF ExpirationIsExpired(exp, block) THEN Fail(st, ErrExpired)
    ELSE IF approval_amount = 0 THEN Fail(st, ErrInvalidZeroAmount)
    ELSE IF sender = operator THEN Fail(st, ErrUnauthorized("Operator cannot be the owner"))
    ELSE Ok([st EXCEPT !.token_approves[key] =
                Some(TokenApproval(Min(prev + approval_amount, U128Max), exp))],
            << <<"action", "approve_single">>, <<"sender", sender>>, <<"operator", operator>>,
               <<"token_id", token_id>>, <<"amount", approval_amount>> >>)

\* expiration: Option<Expiration>, unwrap_or_default gives Never
approve_token(st, block, sender, operator, token_id, approval_amount, expiration) ==
    LET exp == IF IsSome(expiration) THEN Unwrap(expiration) ELSE Never IN
    IF ExpirationIsExpired(exp, block) THEN Fail(st, ErrExpired)
    ELSE IF approval_amount = 0 THEN Fail(st, ErrInvalidZeroAmount)
    ELSE IF sender = operator THEN Fail(st, ErrUnauthorized("Operator cannot be the owner"))
    ELSE Ok([st EXCEPT !.token_approves[<<token_id, sender, operator>>] =
                Some(TokenApproval(approval_amount, exp))],
            << <<"action", "approve_single">>, <<"sender", sender>>, <<"operator", operator>>,
               <<"token_id", token_id>>, <<"amount", approval_amount>> >>)

\* approve_all without the check of operator against the caller
approve_allAcceptsSelf(st, block, sender, operator, expires) ==
    LET exp == IF IsSome(expires) THEN Unwrap(expires) ELSE Never IN
    IF ExpirationIsExpired(exp, block) THEN Fail(st, ErrExpired)
    ELSE Ok([st EXCEPT !.approves[<<sender, operator>>] = Some(exp)],
            << <<"action", "approve_all">>, <<"sender", sender>>, <<"operator", operator>> >>)

\* approve_all without the check of the expiration
approve_allAcceptsExpired(st, block, sender, operator, expires) ==
    LET exp == IF IsSome(expires) THEN Unwrap(expires) ELSE Never IN
    IF sender = operator THEN Fail(st, ErrUnauthorized("Operator cannot be the owner"))
    ELSE Ok([st EXCEPT !.approves[<<sender, operator>>] = Some(exp)],
            << <<"action", "approve_all">>, <<"sender", sender>>, <<"operator", operator>> >>)

\* approve_all that stores the approval under the operator's name
approve_allSwapsKey(st, block, sender, operator, expires) ==
    LET exp == IF IsSome(expires) THEN Unwrap(expires) ELSE Never IN
    IF sender = operator THEN Fail(st, ErrUnauthorized("Operator cannot be the owner"))
    ELSE IF ExpirationIsExpired(exp, block) THEN Fail(st, ErrExpired)
    ELSE Ok([st EXCEPT !.approves[<<operator, sender>>] = Some(exp)],
            << <<"action", "approve_all">>, <<"sender", sender>>, <<"operator", operator>> >>)

approve_all(st, block, sender, operator, expires) ==
    LET exp == IF IsSome(expires) THEN Unwrap(expires) ELSE Never IN
    IF sender = operator THEN Fail(st, ErrUnauthorized("Operator cannot be the owner"))
    ELSE IF ExpirationIsExpired(exp, block) THEN Fail(st, ErrExpired)
    ELSE Ok([st EXCEPT !.approves[<<sender, operator>>] = Some(exp)],
            << <<"action", "approve_all">>, <<"sender", sender>>, <<"operator", operator>> >>)

\* revoke_token that removes the entry whatever amount is revoked
revoke_tokenRemovesAll(st, sender, operator, token_id, amount) ==
    LET key == <<token_id, sender, operator>> IN
    IF ~IsSome(st.token_approves[key]) THEN Fail(st, ErrStdNotFound("TokenApproval"))
    ELSE LET prev_approval == Unwrap(st.token_approves[key])
             revoke_amount == Min(IF IsSome(amount) THEN Unwrap(amount) ELSE U128Max,
                                  prev_approval.amount)
         IN Ok([st EXCEPT !.token_approves[key] = None],
               << <<"action", "revoke_single">>, <<"sender", sender>>,
                  <<"operator", operator>>, <<"token_id", token_id>>,
                  <<"amount", revoke_amount>> >>)

\* revoke_token that removes the entry only when more than the stored amount is asked
revoke_tokenKeepsExact(st, sender, operator, token_id, amount) ==
    LET key == <<token_id, sender, operator>> IN
    IF ~IsSome(st.token_approves[key]) THEN Fail(st, ErrStdNotFound("TokenApproval"))
    ELSE LET prev_approval == Unwrap(st.token_approves[key])
             asked == IF IsSome(amount) THEN Unwrap(amount) ELSE U128Max
             revoke_amount == Min(asked, prev_approval.amount)
             attrs == << <<"action", "revoke_single">>, <<"sender", sender>>,
                         <<"operator", operator>>, <<"token_id", token_id>>,
                         <<"amount", revoke_amount>> >>
         IN IF asked > prev_approval.amount
            THEN Ok([st EXCEPT !.token_approves[key] = None], attrs)
            ELSE Ok(st, attrs)

\* revoke_token that always updates the entry, also down to zero
revoke_tokenKeepsZero(st, sender, operator, token_id, amount) ==
    LET key == <<token_id, sender, operator>> IN
    IF ~IsSome(st.token_approves[key]) THEN Fail(st, ErrStdNotFound("TokenApproval"))
    ELSE LET prev_approval == Unwrap(st.token_approves[key])
             revoke_amount == Min(IF IsSome(amount) THEN Unwrap(amount) ELSE U128Max,
                                  prev_approval.amount)
         IN Ok([st EXCEPT !.token_approves[key] =
                   Some(TokenApproval(prev_approval.amount - revoke_amount,
                                      prev_approval.expiration))],
               << <<"action", "revoke_single">>, <<"sender", sender>>,
                  <<"operator", operator>>, <<"token_id", token_id>>,
                  <<"amount", revoke_amount>> >>)

\* amount: Option<Uint128>, unwrap_or(Uint128::MAX)
revoke_token(st, sender, operator, token_id, amount) ==
    LET key == <<token_id, sender, operator>> IN
    IF ~IsSome(st.token_approves[key]) THEN Fail(st, ErrStdNotFound("TokenApproval"))
    ELSE LET prev_approval == Unwrap(st.token_approves[key])
             revoke_amount == Min(IF IsSome(amount) THEN Unwrap(amount) ELSE U128Max,
                                  prev_approval.amount)
             attrs == << <<"action", "revoke_single">>, <<"sender", sender>>,
                         <<"operator", operator>>, <<"token_id", token_id>>,
                         <<"amount", revoke_amount>> >>
         IN IF revoke_amount = prev_approval.amount
            THEN Ok([st EXCEPT !.token_approves[key] = None], attrs)
            ELSE Ok([st EXCEPT !.token_approves[key] =
                        Some(TokenApproval(prev_approval.amount - revoke_amount,
                                           prev_approval.expiration))], attrs)

\* revoke_all that reports a missing blanket approval
revoke_allStrict(st, sender, operator) ==
    IF ~IsSome(st.approves[<<sender, operator>>]) THEN Fail(st, ErrStdNotFound("approval"))
    ELSE Ok([st EXCEPT !.approves[<<sender, operator>>] = None],
            << <<"action", "revoke_all">>, <<"sender", sender>>, <<"operator", operator>> >>)

revoke_all(st, sender, operator) ==
    Ok([st EXCEPT !.approves[<<sender, operator>>] = None],
       << <<"action", "revoke_all">>, <<"sender", sender>>, <<"operator", operator>> >>)

\* ---------------------------------------------------------------- metadata
\* TokenUpdate { token_id, token_uri, metadata }, the two fields Options
TokenUpdate(token_id, token_uri, metadata) ==
    [token_id |-> token_id, token_uri |-> token_uri, metadata |-> metadata]

\* Cw1155Config::update_token_metadata: the fields the update provides replace
\* those of the token info, the others stay; an update that provides none is refused
update_token_metadata(st, token_id, token_info, token_uri, metadata) ==
    IF ~IsSome(token_uri) /\ ~IsSome(metadata) THEN Fail(st, ErrNoUpdatesRequested(token_id))
    ELSE Ok([st EXCEPT !.tokens[token_id] =
                Some(TokenInfo(IF IsSome(token_uri) THEN token_uri ELSE token_info.token_uri,
                               IF IsSome(metadata) THEN Unwrap(metadata)
                               ELSE token_info.extension))], <<>>)

\* update_metadata without the assert_owner
update_metadataUnguarded(st, minter, sender, update) ==
    IF ~IsSome(st.tokens[update.token_id]) THEN Fail(st, ErrStdNotFound("TokenInfo"))
    ELSE LET token_info == Unwrap(st.tokens[update.token_id])
             r == update_token_metadata(st, update.token_id, token_info, update.token_uri,
                                        update.metadata)
         IN IF ~r.ok THEN r
            ELSE Ok(r.st, << <<"action", "update_metadata_single">>,
                             <<"token_id", update.token_id>>,
                             <<"token_uri", token_info.token_uri>>,
                             <<"metadata_update", IsSome(update.metadata)>> >>)

update_metadata(st, minter, sender, update) ==
    LET a == assert_owner(st, minter, sender) IN
    IF ~a.ok THEN a
    ELSE IF ~IsSome(st.tokens[update.token_id]) THEN Fail(st, ErrStdNotFound("TokenInfo"))
    ELSE LET token_info == Unwrap(st.tokens[update.token_id])
             r == update_token_metadata(st, update.token_id, token_info, update.token_uri,
                                        update.metadata)
         IN IF ~r.ok THEN r
            ELSE Ok(r.st, << <<"action", "update_metadata_single">>,
                             <<"token_id", update.token_id>>,
                             <<"token_uri", token_info.token_uri>>,
                             <<"metadata_update", IsSome(update.metadata)>> >>)

\* the map of update_metadata_batch: every update in turn, the first error wins
RECURSIVE UpdateLoop(_, _, _)
UpdateLoop(st, updates, i) ==
    IF i > Len(updates) THEN Ok(st, <<>>)
    ELSE LET u == updates[i] IN
         IF ~IsSome(st.tokens[u.token_id]) THEN Fail(st, ErrStdNotFound("TokenInfo"))
         ELSE LET r == update_token_metadata(st, u.token_id, Unwrap(st.tokens[u.token_id]),
                                             u.token_uri, u.metadata)
              IN IF ~r.ok THEN r
                 ELSE LET rest == UpdateLoop(r.st, updates, i + 1)
                      IN IF ~rest.ok THEN rest
                         ELSE Ok(rest.st,
                                 << <<u.token_id, r.st.tokens[u.token_id][1].token_uri,
                                      IsSome(u.metadata)>> >> \o rest.attrs)

update_metadata_batch(st, minter, sender, updates) ==
    LET a == assert_owner(st, minter, sender) IN
    IF ~a.ok THEN a
    ELSE IF Len(updates) = 0 THEN Fail(st, ErrEmptyUpdateRequest)
    ELSE LET r == UpdateLoop(st, updates, 1) IN
         IF ~r.ok THEN r
         ELSE Ok(r.st, << <<"action", "update_metadata_batch">>,
                          <<"token_ids", [i \in 1..Len(r.attrs) |-> r.attrs[i][1]]>>,
                          <<"token_uris", [i \in 1..Len(r.attrs) |-> r.attrs[i][2]]>>,
                          <<"metadata_updates", [i \in 1..Len(r.attrs) |-> r.attrs[i][3]]>> >>)

\* ---------------------------------------------------------------- messages
\* Cw1155ExecuteMsg, one record per variant
TokenInfos == {TokenInfo(Some("u1"), "e1")}
MintMsgsOf(ids, amounts) == {Cw1155MintMsg(t, a, i.token_uri, i.extension) :
                                <<t, a, i>> \in ids \X amounts \X TokenInfos}
MintMsgs == MintMsgsOf(TokenIds, Amounts)
TokenAmounts == {TokenAmount(t, a) : <<t, a>> \in BatchTokenIds \X (0..MaxBatchAmount)}

\* the sequences over S of length 0..n
RECURSIVE SeqsUpTo(_, _)
SeqsUpTo(S, n) ==
    IF n = 0 THEN {<<>>}
    ELSE LET shorter == SeqsUpTo(S, n - 1)
         IN shorter \cup {Append(q, x) : <<q, x>> \in {q \in shorter : Len(q) = n - 1} \X S}

Batches == SeqsUpTo(TokenAmounts, MaxBatchLen)
MintBatches == SeqsUpTo(MintMsgsOf(BatchTokenIds, 0..MaxBatchAmount), MaxBatchLen)

MsgMint(recipient, msg) == [kind |-> "Mint", recipient |-> recipient, msg |-> msg]
MsgMintBatch(recipient, msgs) == [kind |-> "MintBatch", recipient |-> recipient, msgs |-> msgs]
MsgSend(from, to, token_id, amount) ==
    [kind |-> "Send", from |-> from, to |-> to, token_id |-> token_id, amount |-> amount]
MsgSendBatch(from, to, batch) == [kind |-> "SendBatch", from |-> from, to |-> to, batch |-> batch]
MsgBurn(from, token_id, amount) ==
    [kind |-> "Burn", from |-> from, token_id |-> token_id, amount |-> amount]
MsgBurnBatch(from, batch) == [kind |-> "BurnBatch", from |-> from, batch |-> batch]
MsgApprove(spender, token_id, amount, expires) ==
    [kind |-> "Approve", spender |-> spender, token_id |-> token_id, amount |-> amount,
     expires |-> expires]
MsgRevoke(spender, token_id, amount) ==
    [kind |-> "Revoke", spender |-> spender, token_id |-> token_id, amount |-> amount]
MsgApproveAll(operator, expires) == [kind |-> "ApproveAll", operator |-> operator, expires |-> expires]
MsgRevokeAll(operator) == [kind |-> "RevokeAll", operator |-> operator]
MsgUpdateMetadata(update) == [kind |-> "UpdateMetadata", update |-> update]
MsgUpdateMetadataBatch(updates) == [kind |-> "UpdateMetadataBatch", updates |-> updates]

\* the message families, as the actions below draw them
MintFamily == {MsgMint(r, m) : <<r, m>> \in Addrs \X MintMsgs}
MintBatchFamily == {MsgMintBatch(r, ms) : <<r, ms>> \in Addrs \X MintBatches}
SendFamily == {MsgSend(f, to, t, a) : <<f, to, t, a>> \in Opt(Addrs) \X Addrs \X TokenIds \X Amounts}
SendBatchFamily == {MsgSendBatch(f, to, b) : <<f, to, b>> \in Opt(Addrs) \X Addrs \X Batches}
BurnFamily == {MsgBurn(f, t, a) : <<f, t, a>> \in Opt(Addrs) \X TokenIds \X Amounts}
BurnBatchFamily == {MsgBurnBatch(f, b) : <<f, b>> \in Opt(Addrs) \X Batches}
ApproveFamily == {MsgApprove(o, t, a, e) :
                    <<o, t, a, e>> \in Addrs \X BatchTokenIds \X Amounts \X Opt(Expirations)}
RevokeFamily == {MsgRevoke(o, t, a) : <<o, t, a>> \in Addrs \X BatchTokenIds \X Opt(Amounts)}
ApproveAllFamily == {MsgApproveAll(o, e) : <<o, e>> \in Addrs \X Opt(Expirations)}
RevokeAllFamily == {MsgRevokeAll(o) : o \in Addrs}

\* the messages of the token registry: mints that carry one of two token infos,
\* and metadata updates that provide a new uri, a new extension, both or neither
RegistryTokenInfos == {TokenInfo(Some("u1"), "e1"), TokenInfo(None, "e2")}
RegistryMintMsgsOf(ids, amounts) == {Cw1155MintMsg(t, a, i.token_uri, i.extension) :
                                        <<t, a, i>> \in ids \X amounts \X RegistryTokenInfos}
RegistryMintFamily ==
    {MsgMint(r, m) : <<r, m>> \in Addrs \X RegistryMintMsgsOf(TokenIds, 1..U128Max)}
RegistryMintBatchFamily ==
    {MsgMintBatch(r, ms) :
        <<r, ms>> \in Addrs \X SeqsUpTo(RegistryMintMsgsOf(BatchTokenIds, 1..MaxBatchAmount),
                                       MaxBatchLen)}
TokenUpdatesOf(ids) == {TokenUpdate(t, u, m) :
                          <<t, u, m>> \in ids \X Opt({"u2"}) \X Opt({"e3"})}
UpdateMetadataFamily == {MsgUpdateMetadata(u) : u \in TokenUpdatesOf(TokenIds)}
UpdateMetadataBatchFamily ==
    {MsgUpdateMetadataBatch(us) : us \in SeqsUpTo(TokenUpdatesOf(BatchTokenIds), MaxBatchLen)}

\* execute: the dispatch on the message
execute(st, minter, block, sender, msg) ==
    CASE msg.kind = "SendBatch" -> send_batch(st, block, sender, msg.from, msg.to, msg.batch)
      [] msg.kind = "MintBatch" -> mint_batch(st, minter, block, sender, msg.recipient, msg.msgs)
      [] msg.kind = "BurnBatch" -> burn_batch(st, block, sender, msg.from, msg.batch)
      [] msg.kind = "ApproveAll" -> approve_all(st, block, sender, msg.operator, msg.expires)
      [] msg.kind = "RevokeAll" -> revoke_all(st, sender, msg.operator)
      [] msg.kind = "Send" -> send(st, block, sender, msg.from, msg.to, msg.token_id, msg.amount)
      [] msg.kind = "Mint" -> mint(st, minter, block, sender, msg.recipient, msg.msg)
      [] msg.kind = "Burn" -> burn(st, block, sender, msg.from, msg.token_id, msg.amount)
      [] msg.kind = "Approve" ->
            approve_token(st, block, sender, msg.spender, msg.token_id, msg.amount, msg.expires)
      [] msg.kind = "Revoke" -> revoke_token(st, sender, msg.spender, msg.token_id, msg.amount)
      [] msg.kind = "UpdateMetadata" -> update_metadata(st, minter, sender, msg.update)
      [] msg.kind = "UpdateMetadataBatch" ->
            update_metadata_batch(st, minter, sender, msg.updates)

\* ---------------------------------------------------------------- state
VARIABLES
    balances,        \* Cw1155Config.balances
    token_supplies,  \* Cw1155Config.token_supplies
    token_approves,  \* Cw1155Config.token_approves
    approves,        \* Cw1155Config.approves
    tokens,          \* Cw1155Config.tokens
    minter,          \* the owner cw_ownable holds
    block,           \* env.block: height and time
    calls,           \* history: number of committed calls
    budget           \* history: per (token_id, owner, operator), the amount of the last
                     \* approve_token less what the operator has moved on it since

vars == <<balances, token_supplies, token_approves, approves, tokens, minter, block, calls,
          budget>>

Store ==
    [balances |-> balances, token_supplies |-> token_supplies,
     token_approves |-> token_approves, approves |-> approves, tokens |-> tokens]

\* instantiate: empty maps; the minter is msg.minter or, by default, the sender
Init ==
    /\ balances = EmptyStore.balances
    /\ token_supplies = EmptyStore.token_supplies
    /\ token_approves = EmptyStore.token_approves
    /\ approves = EmptyStore.approves
    /\ tokens = EmptyStore.tokens
    /\ minter = "alice"
    /\ block = [height |-> 0, time |-> 0]
    /\ calls = 0
    /\ budget = [k \in TokenApproveKeys |-> None]

\* the line items of a message that moves tokens out of a balance
LineItems(msg) ==
    CASE msg.kind \in {"Send", "Burn"} -> <<TokenAmount(msg.token_id, msg.amount)>>
      [] msg.kind \in {"SendBatch", "BurnBatch"} -> msg.batch
      [] OTHER -> <<>>

RECURSIVE SumFor(_, _, _)
SumFor(items, token_id, i) ==
    IF i > Len(items) THEN 0
    ELSE (IF items[i].token_id = token_id THEN items[i].amount ELSE 0)
            + SumFor(items, token_id, i + 1)

\* total amount of token_id the message lists
Moved(msg, token_id) == SumFor(LineItems(msg), token_id, 1)

\* the history variable budget after a committed call
BudgetAfter(sender, msg) ==
    IF msg.kind = "Approve"
    THEN [budget EXCEPT ![<<msg.token_id, sender, msg.spender>>] = Some(msg.amount)]
    ELSE IF /\ msg.kind \in {"Send", "SendBatch", "Burn", "BurnBatch"}
            /\ ResolveFrom(sender, msg.from) # sender
            /\ ~verify_all_approval(Store, block, ResolveFrom(sender, msg.from), sender)
         THEN [k \in TokenApproveKeys |->
                 IF k[2] = ResolveFrom(sender, msg.from) /\ k[3] = sender /\ IsSome(budget[k])
                 THEN Some(Unwrap(budget[k]) - Moved(msg, k[1]))
                 ELSE budget[k]]
         ELSE budget

\* number of keys a map stores
StoredCount(map) == Cardinality({k \in DOMAIN map : IsSome(map[k])})

\* One call of execute. The host keeps the handler's writes when it returns Ok
\* and drops them all when it returns Err or panics.
\* a host that keeps the writes of a failed call
HostCommitKeepsWrites(st, r) == r.st

\* The host's transaction: the writes of a call are kept when the handler returns
\* Ok and are all dropped when it returns Err or panics.
HostCommit(st, r) == IF r.ok THEN r.st ELSE st

\* the store variables take the value st
StoreBecomes(st) ==
    /\ balances' = st.balances
    /\ token_supplies' = st.token_supplies
    /\ token_approves' = st.token_approves
    /\ approves' = st.approves
    /\ tokens' = st.tokens

\* One call of execute, committed by the host.
Call(sender, msg) ==
    /\ calls < MaxCalls
    /\ LET r == execute(Store, minter, block, sender, msg)
       IN IF r.ok
          THEN /\ StoredCount(r.st.token_approves) <= MaxTokenApprovals
               /\ StoredCount(r.st.approves) <= MaxOperatorApprovals
               /\ StoreBecomes(HostCommit(Store, r))
               /\ calls' = calls + 1
               /\ budget' = BudgetAfter(sender, msg)
               /\ UNCHANGED <<minter, block>>
          ELSE /\ StoreBecomes(HostCommit(Store, r))
               /\ UNCHANGED <<minter, block, calls, budget>>

Mint == \E sender \in Addrs, msg \in MintFamily : Call(sender, msg)
MintBatch == \E sender \in Addrs, msg \in MintBatchFamily : Call(sender, msg)
Send == \E sender \in Addrs, msg \in SendFamily : Call(sender, msg)
SendBatch == \E sender \in Addrs, msg \in SendBatchFamily : Call(sender, msg)
Burn == \E sender \in Addrs, msg \in BurnFamily : Call(sender, msg)
BurnBatch == \E sender \in Addrs, msg \in BurnBatchFamily : Call(sender, msg)
Approve == \E sender \in Addrs, msg \in ApproveFamily : Call(sender, msg)
Revoke == \E sender \in Addrs, msg \in RevokeFamily : Call(sender, msg)
ApproveAll == \E sender \in Addrs, msg \in ApproveAllFamily : Call(sender, msg)
RevokeAll == \E sender \in Addrs, msg \in RevokeAllFamily : Call(sender, msg)

\* the chain produces the next block
NextBlock ==
    /\ block.height < MaxHeight
    /\ block' = [height |-> block.height + 1, time |-> block.time + 1]
    /\ UNCHANGED <<balances, token_supplies, token_approves, approves, tokens, minter, calls,
                   budget>>

Next ==
    \/ Mint \/ MintBatch \/ Send \/ SendBatch \/ Burn \/ BurnBatch
    \/ Approve \/ Revoke \/ ApproveAll \/ RevokeAll
    \/ NextBlock

Spec == Init /\ [][Next]_vars

\* ---------------------------------------------------------------- token registry
\* The calls that write or could write the token infos, with the inputs of the
\* registry, and the owner handing the ownership over.
RegistryMint == \E sender \in Addrs, msg \in RegistryMintFamily : Call(sender, msg)
RegistryMintBatch == \E sender \in Addrs, msg \in RegistryMintBatchFamily : Call(sender, msg)
UpdateMetadata == \E sender \in Addrs, msg \in UpdateMetadataFamily : Call(sender, msg)
UpdateMetadataBatch == \E sender \in Addrs, msg \in UpdateMetadataBatchFamily : Call(sender, msg)

\* update_ownership: the ownership protocol of cw_ownable, as its outcome: the
\* owner has transferred the ownership and the new owner has accepted it
UpdateOwnership ==
    /\ calls < MaxCalls
    /\ \E new_owner \in Addrs \ {minter} : minter' = new_owner
    /\ calls' = calls + 1
    /\ UNCHANGED <<balances, token_supplies, token_approves, approves, tokens, block, budget>>

RegistryNext ==
    \/ RegistryMint \/ RegistryMintBatch \/ Send \/ Burn
    \/ UpdateMetadata \/ UpdateMetadataBatch \/ UpdateOwnership

SpecRegistry == Init /\ [][RegistryNext]_vars

\* ---------------------------------------------------------------- properties
\* what a call returns in the current state
Result(sender, msg) == execute(Store, minter, block, sender, msg)

RECURSIVE SumOver(_, _)
SumOver(f, S) ==
    IF S = {} THEN 0
    ELSE LET x == CHOOSE y \in S : TRUE IN f[x] + SumOver(f, S \ {x})

\* sum over all owners of balance(owner, token_id)
TotalBalance(bal, token_id) ==
    SumOver([a \in Addrs |-> AmountOf(bal[<<a, token_id>>])], Addrs)

\* C1: in every reachable state, for every token id, the balances of all owners
\* sum to the supply of the token id.
C1_SupplyIsSumOfBalances ==
    \A t \in TokenIds : TotalBalance(balances, t) = AmountOf(token_supplies[t])

\* supply 1 of token A is left after mint, transfer and burn: bob holds it, and
\* alice's entry is stored with zero
C1_Witness ==
    /\ calls = MaxCalls
    /\ token_supplies["A"] = Some(1)
    /\ balances[<<"alice", "A">>] = Some(0)
    /\ balances[<<"bob", "A">>] = Some(1)

\* C2: what an operator without blanket approval moves out of the owner's balance
\* since the owner's last approve_token(operator, t, a) never exceeds a.
C2_SpendWithinAllowance ==
    \A k \in TokenApproveKeys : IsSome(budget[k]) => Unwrap(budget[k]) >= 0

\* the Send messages a blanket operator should be able to execute: caller is not
\* the owner, holds a blanket approval that is not expired, the amount is positive
\* and within the owner's balance, the recipient is not the owner and its balance
\* does not overflow
BlanketSend(sender, msg) ==
    LET from == ResolveFrom(sender, msg.from) IN
    /\ from # sender
    /\ verify_all_approval(Store, block, from, sender)
    /\ msg.amount > 0
    /\ msg.amount <= AmountOf(balances[<<from, msg.token_id>>])
    /\ msg.to # from
    /\ AmountOf(balances[<<msg.to, msg.token_id>>]) + msg.amount <= U128Max

\* C3: a Send by a blanket operator succeeds whatever per-token approval entry is
\* stored for (token_id, owner, caller).
C3_BlanketSendSucceeds ==
    \A sender \in Addrs, msg \in SendFamily :
        BlanketSend(sender, msg) => Result(sender, msg).ok

\* the Send messages of a caller who is neither the owner nor a blanket operator
\* and has no per-token approval entry, for a positive amount
UnapprovedSend(sender, msg) ==
    LET from == ResolveFrom(sender, msg.from) IN
    /\ from # sender
    /\ ~verify_all_approval(Store, block, from, sender)
    /\ ~IsSome(token_approves[<<msg.token_id, from, sender>>])
    /\ msg.amount > 0

storeVars == <<balances, token_supplies, token_approves, approves, tokens>>

\* C5: a call that returns an error (a step that commits no call: calls stays)
\* leaves Balance, Supply, TokenApproval, OperatorApproval and TokenInfo as they
\* were, whatever the handler wrote before it failed.
C5_ErrorLeavesStore ==
    [][calls' = calls => UNCHANGED storeVars]_vars

\* alice holds 2 of A; her SendBatch of 1 and then 0 fails on the second line item
\* after the handler has debited the first, and the store is as before
C5_Witness ==
    LET r == Result("alice", MsgSendBatch(None, "bob", <<TokenAmount("A", 1), TokenAmount("A", 0)>>))
    IN /\ balances[<<"alice", "A">>] = Some(2)
       /\ ~r.ok
       /\ r.err = ErrInvalidZeroAmount
       /\ r.st.balances[<<"alice", "A">>] = Some(1)
       /\ HostCommit(Store, r) = Store

\* a message that carries a zero amount
HasZeroLine(items) == \E i \in 1..Len(items) : items[i].amount = 0
CarriesZero(msg) ==
    CASE msg.kind \in {"Mint"} -> msg.msg.amount = 0
      [] msg.kind \in {"MintBatch"} -> HasZeroLine(msg.msgs)
      [] msg.kind \in {"Send", "Burn", "Approve"} -> msg.amount = 0
      [] msg.kind \in {"SendBatch", "BurnBatch"} -> HasZeroLine(msg.batch)
      [] msg.kind \in {"Revoke"} -> msg.amount = Some(0)
      [] OTHER -> FALSE
ZeroFamily ==
    {msg \in MintFamily \cup MintBatchFamily \cup SendFamily \cup SendBatchFamily
             \cup BurnFamily \cup BurnBatchFamily \cup ApproveFamily \cup RevokeFamily :
        CarriesZero(msg)}

\* C6 (as amended): every action that carries a zero amount leaves the state
\* unchanged, and fails unless it is a Revoke with an explicit amount of 0, which
\* succeeds (changing nothing) when the approval entry exists.
C6_ZeroAmountNoEffect ==
    \A sender \in Addrs, msg \in ZeroFamily :
        LET r == Result(sender, msg) IN
        /\ HostCommit(Store, r) = Store
        /\ msg.kind # "Revoke" => ~r.ok
        /\ msg.kind = "Revoke" =>
              (r.ok <=> IsSome(token_approves[<<msg.token_id, sender, msg.spender>>]))

\* C6 (as stated): every action that carries a zero amount fails.
C6_ZeroAmountFails ==
    \A sender \in Addrs, msg \in ZeroFamily : ~Result(sender, msg).ok

\* alice holds 1 of A and has approved bob: her Send of 0 fails with
\* InvalidZeroAmount, her Revoke of 0 returns Ok and the entry stays
C6_Witness ==
    /\ balances[<<"alice", "A">>] = Some(1)
    /\ IsSome(token_approves[<<"A", "alice", "bob">>])
    /\ Result("alice", MsgSend(None, "bob", "A", 0)).err = ErrInvalidZeroAmount
    /\ Result("alice", MsgRevoke("bob", "A", Some(0))).ok
    /\ Result("alice", MsgRevoke("bob", "A", Some(0))).st = Store

\* C7 (as amended): Mint and MintBatch by an address other than the current owner
\* fail with the Ownership error NotOwner and write nothing, and a supply only
\* increases in a Mint or MintBatch call of the current owner.
C7_NonOwnerMintRefused ==
    \A sender \in Addrs \ {minter}, msg \in MintFamily \cup MintBatchFamily :
        LET r == Result(sender, msg) IN
        /\ ~r.ok
        /\ r.err = ErrOwnershipNotOwner
        /\ r.st = Store
C7_SupplyRaisedByOwner ==
    (\E t \in TokenIds : AmountOf(token_supplies'[t]) > AmountOf(token_supplies[t]))
        => \E msg \in MintFamily \cup MintBatchFamily : Call(minter, msg)
C8_ApprovalConsumed ==
    \A sender \in Addrs, msg \in SendFamily \cup BurnFamily :
        LET from == ResolveFrom(sender, msg.from)
            key == <<msg.token_id, from, sender>>
            r == Result(sender, msg)
        IN (from # sender /\ IsSome(token_approves[key]) /\ r.ok) =>
              LET p == Unwrap(token_approves[key]) IN
              IF p.amount <= msg.amount
              THEN r.st.token_approves[key] = None
              ELSE r.st.token_approves[key] =
                      Some(TokenApproval(p.amount - msg.amount, p.expiration))

\* bob has moved 1 of the 2 that alice approved: the entry is left with 1
C8_Witness ==
    /\ budget[<<"A", "alice", "bob">>] = Some(1)
    /\ token_approves[<<"A", "alice", "bob">>] = Some(TokenApproval(1, Never))
    /\ balances[<<"alice", "A">>] = Some(1)
    /\ balances[<<"carol", "A">>] = Some(1)
    /\ token_supplies["A"] = Some(2)

\* C9: a blanket approval entry (owner, operator) changes only in an ApproveAll or
\* RevokeAll call of that owner naming that operator; no other call touches it.
C9_BlanketChange ==
    \A k \in ApproveKeys :
        approves'[k] # approves[k] =>
            \E msg \in ApproveAllFamily \cup RevokeAllFamily :
                msg.operator = k[2] /\ Call(k[1], msg)
C9_BlanketOnlyByOwner == [][C9_BlanketChange]_vars

\* bob, alice's blanket operator, has moved her token to carol and the blanket
\* approval is still stored
C9_Witness ==
    /\ approves[<<"alice", "bob">>] = Some(Never)
    /\ balances[<<"alice", "A">>] = Some(0)
    /\ balances[<<"carol", "A">>] = Some(1)
    /\ calls = MaxCalls

\* a Send or SendBatch whose from is its to and which is otherwise valid: every
\* line item is authorized and not zero, and from's balance covers the totals
SelfSendOtherwiseValid(sender, msg) ==
    LET from == ResolveFrom(sender, msg.from)
        items == LineItems(msg)
    IN /\ verify_approvals(Store, block, sender, from, items).ok
       /\ \A i \in 1..Len(items) : items[i].amount > 0
       /\ \A t \in TokenIds : Moved(msg, t) <= AmountOf(balances[<<from, t>>])

\* C10: a Send or SendBatch to its own from address never succeeds and changes
\* nothing, and fails with Unauthorized "Cannot send to self" when otherwise valid.
C10_SendToSelfRefused ==
    \A sender \in Addrs, msg \in SendFamily \cup SendBatchFamily :
        ResolveFrom(sender, msg.from) = msg.to =>
            LET r == Result(sender, msg) IN
            /\ ~r.ok
            /\ HostCommit(Store, r) = Store
            /\ SelfSendOtherwiseValid(sender, msg) =>
                  r.err = ErrUnauthorized("Cannot send to self")

\* the Approve and ApproveAll messages of a caller that name the caller as operator
SelfApprovals(sender) ==
    {msg \in ApproveFamily : msg.spender = sender}
        \cup {msg \in ApproveAllFamily : msg.operator = sender}

\* no stored entry has its owner as operator
NoSelfEntry(st) ==
    /\ \A k \in TokenApproveKeys : k[2] = k[3] => st.token_approves[k] = None
    /\ \A k \in ApproveKeys : k[1] = k[2] => st.approves[k] = None

\* the error of approve_token for operator = caller: the expiration and the amount
\* are checked before the operator
SelfApproveError(msg) ==
    LET exp == IF IsSome(msg.expires) THEN Unwrap(msg.expires) ELSE Never IN
    IF msg.kind = "ApproveAll" THEN ErrUnauthorized("Operator cannot be the owner")
    ELSE IF ExpirationIsExpired(exp, block) THEN ErrExpired
    ELSE IF msg.amount = 0 THEN ErrInvalidZeroAmount
    ELSE ErrUnauthorized("Operator cannot be the owner")

\* C11 (as amended): approve_token and approve_all with operator equal to the caller
\* fail and store nothing, so no entry has its owner as operator; the error is
\* Unauthorized "Operator cannot be the owner" for approve_all, and for approve_token
\* unless the expiration is already expired (Expired) or the amount is zero
\* (InvalidZeroAmount).
C11_SelfApprovalRefused ==
    /\ NoSelfEntry(Store)
    /\ \A sender \in Addrs : \A msg \in SelfApprovals(sender) :
          LET r == Result(sender, msg) IN
          /\ ~r.ok
          /\ r.err = SelfApproveError(msg)
          /\ NoSelfEntry(r.st)
          /\ HostCommit(Store, r) = Store

\* C11 (as stated): every approve_token and approve_all with operator equal to the
\* caller fails with Unauthorized "Operator cannot be the owner".
C11_SelfApprovalUnauthorized ==
    /\ NoSelfEntry(Store)
    /\ \A sender \in Addrs : \A msg \in SelfApprovals(sender) :
          LET r == Result(sender, msg) IN
          ~r.ok /\ r.err = ErrUnauthorized("Operator cannot be the owner")

\* alice has approved bob per token and as blanket operator; her approvals of
\* herself are refused: Unauthorized for a valid amount, InvalidZeroAmount for zero
C11_Witness ==
    /\ IsSome(token_approves[<<"A", "alice", "bob">>])
    /\ IsSome(approves[<<"alice", "bob">>])
    /\ Result("alice", MsgApprove("alice", "A", 1, None)).err
          = ErrUnauthorized("Operator cannot be the owner")
    /\ Result("alice", MsgApproveAll("alice", None)).err
          = ErrUnauthorized("Operator cannot be the owner")
    /\ Result("alice", MsgApprove("alice", "A", 0, None)).err = ErrInvalidZeroAmount

\* C12: after a successful approve_token(operator, token_id, amount, expiration) the
\* entry of (token_id, caller, operator) is exactly (amount, expiration), Never
\* standing for an expiration left out, whatever entry was stored before; no other
\* entry changes.
C12_ApproveOverwrites ==
    \A sender \in Addrs, msg \in ApproveFamily :
        LET r == Result(sender, msg)
            key == <<msg.token_id, sender, msg.spender>>
            exp == IF IsSome(msg.expires) THEN Unwrap(msg.expires) ELSE Never
        IN r.ok =>
              /\ r.st.token_approves[key] = Some(TokenApproval(msg.amount, exp))
              /\ \A k \in TokenApproveKeys \ {key} : r.st.token_approves[k] = token_approves[k]

\* alice's approval of bob stands at 2 with no expiration; her approve_token of 1
\* expiring at height 1 replaces it
C12_Witness ==
    LET r == Result("alice", MsgApprove("bob", "A", 1, Some(AtHeight(1)))) IN
    /\ token_approves[<<"A", "alice", "bob">>] = Some(TokenApproval(2, Never))
    /\ r.ok
    /\ r.st.token_approves[<<"A", "alice", "bob">>] = Some(TokenApproval(1, AtHeight(1)))

\* C13: revoke_token(operator, token_id, amount?) fails with not-found and changes
\* nothing when (token_id, caller, operator) has no entry; otherwise, with
\* r = min(amount or MAX, existing.amount), the entry is removed when r is the
\* existing amount and else kept with existing.amount - r and its expiration; no
\* other entry changes.
C13_RevokeToken ==
    \A sender \in Addrs, msg \in RevokeFamily :
        LET r == Result(sender, msg)
            key == <<msg.token_id, sender, msg.spender>>
        IN IF ~IsSome(token_approves[key])
           THEN /\ ~r.ok
                /\ r.err = ErrStdNotFound("TokenApproval")
                /\ r.st = Store
           ELSE LET existing == Unwrap(token_approves[key])
                    revoked == Min(IF IsSome(msg.amount) THEN Unwrap(msg.amount) ELSE U128Max,
                                   existing.amount)
                IN /\ r.ok
                   /\ r.st = [Store EXCEPT !.token_approves[key] =
                                 IF revoked = existing.amount THEN None
                                 ELSE Some(TokenApproval(existing.amount - revoked,
                                                         existing.expiration))]

\* alice's approval of bob stands at 2 until height 1: revoking 1 leaves 1 with the
\* same expiration, revoking without an amount removes it, and carol's Revoke of
\* an entry she never gave is not found
C13_Witness ==
    /\ token_approves[<<"A", "alice", "bob">>] = Some(TokenApproval(2, AtHeight(1)))
    /\ Result("alice", MsgRevoke("bob", "A", Some(1))).st.token_approves[<<"A", "alice", "bob">>]
          = Some(TokenApproval(1, AtHeight(1)))
    /\ Result("alice", MsgRevoke("bob", "A", None)).st.token_approves[<<"A", "alice", "bob">>]
          = None
    /\ Result("carol", MsgRevoke("bob", "A", None)).err = ErrStdNotFound("TokenApproval")

\* C14: revoke_all(operator) always succeeds; it leaves the state as it is when
\* (caller, operator) has no blanket entry, and a second revoke_all right after the
\* first succeeds and leaves the state the first one left.
C14_RevokeAllIdempotent ==
    \A sender \in Addrs, msg \in RevokeAllFamily :
        LET r == Result(sender, msg)
            again == execute(HostCommit(Store, r), minter, block, sender, msg)
        IN /\ r.ok
           /\ ~IsSome(approves[<<sender, msg.operator>>]) => r.st = Store
           /\ r.st = [Store EXCEPT !.approves[<<sender, msg.operator>>] = None]
           /\ again.ok
           /\ again.st = r.st

\* alice's blanket approval of bob is stored: her RevokeAll removes it, and carol's
\* RevokeAll, with nothing stored, returns Ok and changes nothing
C14_Witness ==
    /\ IsSome(approves[<<"alice", "bob">>])
    /\ Result("alice", MsgRevokeAll("bob")).ok
    /\ Result("alice", MsgRevokeAll("bob")).st.approves[<<"alice", "bob">>] = None
    /\ Result("carol", MsgRevokeAll("bob")).ok
    /\ Result("carol", MsgRevokeAll("bob")).st = Store

\* C15: when approve_token(op, t, a) with a > 0 succeeds, revoke_token(op, t, a) by
\* the same caller right after it succeeds and leaves no entry for (t, caller, op),
\* whatever entry was stored before the approve.
C15_ApproveThenRevoke ==
    \A sender \in Addrs, msg \in ApproveFamily :
        LET r1 == Result(sender, msg)
            r2 == execute(HostCommit(Store, r1), minter, block, sender,
                          MsgRevoke(msg.spender, msg.token_id, Some(msg.amount)))
            key == <<msg.token_id, sender, msg.spender>>
        IN (msg.amount > 0 /\ r1.ok) =>
              /\ r2.ok
              /\ r2.st.token_approves[key] = None
              /\ \A k \in TokenApproveKeys \ {key} : r2.st.token_approves[k] = token_approves[k]

\* alice's approval of bob stands at 2; she approves 1 and revokes 1, and no entry
\* is left
C15_Witness ==
    LET r1 == Result("alice", MsgApprove("bob", "A", 1, None))
        r2 == execute(HostCommit(Store, r1), minter, block, "alice", MsgRevoke("bob", "A", Some(1)))
    IN /\ token_approves[<<"A", "alice", "bob">>] = Some(TokenApproval(2, Never))
       /\ r1.ok
       /\ r1.st.token_approves[<<"A", "alice", "bob">>] = Some(TokenApproval(1, Never))
       /\ r2.ok
       /\ r2.st.token_approves[<<"A", "alice", "bob">>] = None

\* C16: in every reachable state every stored TokenApproval has amount > 0.
C16_StoredApprovalPositive ==
    \A k \in TokenApproveKeys :
        IsSome(token_approves[k]) => Unwrap(token_approves[k]).amount > 0

\* alice holds 2 of A and her approval of bob stands at 2: bob's Send of 1 and
\* alice's Revoke of 1 each leave the entry with 1, bob's Send of 2 and alice's
\* Revoke of 2 remove it
C16_Witness ==
    LET key == <<"A", "alice", "bob">>
        after(sender, msg) == Result(sender, msg).st.token_approves[key]
    IN /\ token_approves[key] = Some(TokenApproval(2, Never))
       /\ balances[<<"alice", "A">>] = Some(2)
       /\ Result("bob", MsgSend(Some("alice"), "carol", "A", 1)).ok
       /\ after("bob", MsgSend(Some("alice"), "carol", "A", 1)) = Some(TokenApproval(1, Never))
       /\ after("alice", MsgRevoke("bob", "A", Some(1))) = Some(TokenApproval(1, Never))
       /\ Result("bob", MsgSend(Some("alice"), "carol", "A", 2)).ok
       /\ after("bob", MsgSend(Some("alice"), "carol", "A", 2)) = None
       /\ after("alice", MsgRevoke("bob", "A", Some(2))) = None

\* the recipients a Send of amount out of from's balance of token_id can name:
\* not from itself, and with room for the amount
SendRecipients(from, token_id, amount) ==
    {to \in Addrs \ {from} : AmountOf(balances[<<to, token_id>>]) + amount <= U128Max}

\* C18: for every caller, from, token id and amount > 0, Burn{from, token_id, amount}
\* succeeds exactly when Send{from, to, token_id, amount} succeeds, for every
\* recipient to # from whose balance does not overflow (and there is one whenever
\* the Burn succeeds); both leave the same per-token approvals and the same
\* balance(from, token_id).
C18_BurnAuthorizedLikeSend ==
    \A sender \in Addrs, msg \in BurnFamily :
        msg.amount > 0 =>
            LET from == ResolveFrom(sender, msg.from)
                b == Result(sender, msg)
                recipients == SendRecipients(from, msg.token_id, msg.amount)
            IN /\ b.ok => recipients # {}
               /\ \A to \in recipients :
                     LET s == Result(sender, MsgSend(msg.from, to, msg.token_id, msg.amount))
                     IN /\ b.ok <=> s.ok
                        /\ b.ok =>
                              /\ b.st.token_approves = s.st.token_approves
                              /\ b.st.balances[<<from, msg.token_id>>]
                                    = s.st.balances[<<from, msg.token_id>>]

\* alice holds 2 of A and has approved bob for 1: bob can burn 1 and can send 1
\* to carol, both using up the approval; he can neither burn nor send 2, and carol
\* can do neither
C18_Witness ==
    LET burn1 == Result("bob", MsgBurn(Some("alice"), "A", 1))
        send1 == Result("bob", MsgSend(Some("alice"), "carol", "A", 1))
    IN /\ balances[<<"alice", "A">>] = Some(2)
       /\ token_approves[<<"A", "alice", "bob">>] = Some(TokenApproval(1, Never))
       /\ burn1.ok /\ send1.ok
       /\ burn1.st.token_approves[<<"A", "alice", "bob">>] = None
       /\ send1.st.token_approves[<<"A", "alice", "bob">>] = None
       /\ burn1.st.balances[<<"alice", "A">>] = Some(1)
       /\ ~Result("bob", MsgBurn(Some("alice"), "A", 2)).ok
       /\ ~Result("bob", MsgSend(Some("alice"), "carol", "A", 2)).ok
       /\ ~Result("carol", MsgBurn(Some("alice"), "A", 1)).ok
       /\ ~Result("carol", MsgSend(Some("alice"), "bob", "A", 1)).ok

\* C19: a Mint of amount a > 0 of token t to recipient r by the owner fails with an
\* overflow error, changing nothing, when balance(r, t) + a or supply(t) + a exceeds
\* the maximum; otherwise it succeeds, raises balance(r, t) and supply(t) by a, absent
\* entries counting as zero, and changes no other balance, no other supply and no
\* approval.
C19_MintAddsAmount ==
    \A msg \in MintFamily :
        msg.msg.amount > 0 =>
            LET r == Result(minter, msg)
                t == msg.msg.token_id
                a == msg.msg.amount
                bal == AmountOf(balances[<<msg.recipient, t>>])
                sup == AmountOf(token_supplies[t])
            IN IF bal + a > U128Max \/ sup + a > U128Max
               THEN /\ ~r.ok
                    /\ r.err = ErrStdOverflow
                    /\ HostCommit(Store, r) = Store
               ELSE /\ r.ok
                    /\ r.st.balances = [balances EXCEPT ![<<msg.recipient, t>>] = Some(bal + a)]
                    /\ r.st.token_supplies = [token_supplies EXCEPT ![t] = Some(sup + a)]
                    /\ r.st.token_approves = token_approves
                    /\ r.st.approves = approves

\* alice holds 1 of A and bob 1, the supply standing at the maximum of 2: a Mint
\* of 1 more A overflows the supply, a Mint of 1 of the unminted B gives balance
\* and supply 1
C19_Witness ==
    LET info == Cw1155MintMsg("B", 1, Some("u1"), "e1")
        more == Cw1155MintMsg("A", 1, Some("u1"), "e1")
    IN /\ balances[<<"alice", "A">>] = Some(1)
       /\ balances[<<"bob", "A">>] = Some(1)
       /\ token_supplies["A"] = Some(U128Max)
       /\ token_supplies["B"] = None
       /\ Result(minter, MsgMint("alice", more)).err = ErrStdOverflow
       /\ Result(minter, MsgMint("alice", info)).ok
       /\ Result(minter, MsgMint("alice", info)).st.balances[<<"alice", "B">>] = Some(1)
       /\ Result(minter, MsgMint("alice", info)).st.token_supplies["B"] = Some(1)

\* C20: a successful Send or SendBatch leaves every supply as it is, lowers
\* balance(from, t) and raises balance(to, t) by the total amount the message lists
\* for t, for every token id t, and changes no balance of a third address.
C20_SendMovesBalances ==
    \A sender \in Addrs, msg \in SendFamily \cup SendBatchFamily :
        LET r == Result(sender, msg)
            from == ResolveFrom(sender, msg.from)
        IN r.ok =>
              /\ r.st.token_supplies = token_supplies
              /\ \A t \in TokenIds :
                    /\ AmountOf(r.st.balances[<<from, t>>])
                          = AmountOf(balances[<<from, t>>]) - Moved(msg, t)
                    /\ AmountOf(r.st.balances[<<msg.to, t>>])
                          = AmountOf(balances[<<msg.to, t>>]) + Moved(msg, t)
                    /\ \A a \in Addrs \ {from, msg.to} :
                          r.st.balances[<<a, t>>] = balances[<<a, t>>]

\* alice holds 2 of A: her SendBatch of 1 and 1 to bob leaves her 0 and bob 2, her
\* Send of 1 leaves her 1 and bob 1, and the supply stays 2
C20_Witness ==
    LET two == Result("alice", MsgSendBatch(None, "bob", <<TokenAmount("A", 1), TokenAmount("A", 1)>>))
        one == Result("alice", MsgSend(None, "bob", "A", 1))
    IN /\ balances[<<"alice", "A">>] = Some(2)
       /\ token_supplies["A"] = Some(2)
       /\ two.ok /\ one.ok
       /\ two.st.balances[<<"alice", "A">>] = Some(0)
       /\ two.st.balances[<<"bob", "A">>] = Some(2)
       /\ one.st.balances[<<"alice", "A">>] = Some(1)
       /\ one.st.balances[<<"bob", "A">>] = Some(1)
       /\ two.st.token_supplies["A"] = Some(2)

\* every message of the model
AllMessages ==
    MintFamily \cup MintBatchFamily \cup SendFamily \cup SendBatchFamily \cup BurnFamily
        \cup BurnBatchFamily \cup ApproveFamily \cup RevokeFamily \cup ApproveAllFamily
        \cup RevokeAllFamily \cup RegistryMintFamily \cup RegistryMintBatchFamily
        \cup UpdateMetadataFamily \cup UpdateMetadataBatchFamily

\* the mint messages of a Mint or MintBatch, and the token ids an update names
MintMsgsIn(msg) ==
    CASE msg.kind = "Mint" -> <<msg.msg>>
      [] msg.kind = "MintBatch" -> msg.msgs
      [] OTHER -> <<>>
UpdatedIds(msg) ==
    CASE msg.kind = "UpdateMetadata" -> {msg.update.token_id}
      [] msg.kind = "UpdateMetadataBatch" ->
            {msg.updates[i].token_id : i \in 1..Len(msg.updates)}
      [] OTHER -> {}

\* the token info of the first of the mint messages that names token_id
FirstInfo(msgs, token_id) ==
    LET i == CHOOSE i \in 1..Len(msgs) :
                /\ msgs[i].token_id = token_id
                /\ \A j \in 1..(i - 1) : msgs[j].token_id # token_id
    IN TokenInfo(msgs[i].token_uri, msgs[i].extension)

\* what a successful call may leave as the token info of token_id: the info of the
\* first mint for a token id without one, anything for a stored info that a
\* metadata update names, and otherwise what was stored
TokenInfoKept(sender, msg, token_id, after) ==
    LET msgs == MintMsgsIn(msg)
        minted == \E i \in 1..Len(msgs) : msgs[i].token_id = token_id
    IN IF ~IsSome(tokens[token_id])
       THEN after = (IF minted THEN Some(FirstInfo(msgs, token_id)) ELSE None)
       ELSE \/ after = tokens[token_id]
            \/ token_id \in UpdatedIds(msg) /\ sender = minter /\ IsSome(after)

C17_CallKeepsTokenInfo ==
    \A sender \in Addrs, msg \in AllMessages :
        LET r == Result(sender, msg) IN
        r.ok => \A t \in TokenIds : TokenInfoKept(sender, msg, t, r.st.tokens[t])

C17_TokenInfoChange ==
    tokens' # tokens =>
        \E msg \in MintFamily \cup MintBatchFamily \cup RegistryMintFamily
                    \cup RegistryMintBatchFamily \cup UpdateMetadataFamily
                    \cup UpdateMetadataBatchFamily :
            Call(minter, msg)

\* C17: the token info of a token id is created by the first successful Mint or
\* MintBatch of the id, with the uri and extension of that mint message, and is
\* afterwards changed only by an UpdateMetadata or UpdateMetadataBatch of the
\* current owner: no other call, and no later mint of the id, writes it.
C17_TokenInfoCreatedOnce ==
    []C17_CallKeepsTokenInfo /\ [][C17_TokenInfoChange]_vars

\* A was minted with (u1, e1) and then burned down to supply 0: a Mint of A that
\* carries (None, e2) succeeds and leaves (u1, e1), a MintBatch naming the
\* unminted B twice would store the info of its first line, and an update of the
\* uri of A is refused to a caller who is not the owner and granted to the owner
C17_Witness ==
    LET again == Result(minter, MsgMint("bob", Cw1155MintMsg("A", 1, None, "e2")))
        twice == mint_batch(Store, minter, block, minter, "bob",
                            <<Cw1155MintMsg("B", 1, None, "e2"),
                              Cw1155MintMsg("B", 1, Some("u1"), "e1")>>)
    IN /\ tokens["A"] = Some(TokenInfo(Some("u1"), "e1"))
       /\ token_supplies["A"] = Some(0)
       /\ again.ok
       /\ again.st.token_supplies["A"] = Some(1)
       /\ again.st.tokens["A"] = Some(TokenInfo(Some("u1"), "e1"))
       /\ twice.ok
       /\ twice.st.tokens["B"] = Some(TokenInfo(None, "e2"))
       /\ \E a \in Addrs \ {minter} :
             ~Result(a, MsgUpdateMetadata(TokenUpdate("A", Some("u2"), None))).ok
       /\ Result(minter, MsgUpdateMetadata(TokenUpdate("A", Some("u2"), None))).st.tokens["A"]
             = Some(TokenInfo(Some("u2"), "e1"))

\* C21: a successful Burn of amount a of token t from f lowers balance(f, t) and
\* supply(t) by exactly a and changes no other balance or supply; when it burns the
\* whole balance it leaves balance zero, and f can then neither send nor burn a
\* positive amount of t.
C21_BurnTakesAmount ==
    \A sender \in Addrs, msg \in BurnFamily :
        LET r == Result(sender, msg)
            f == ResolveFrom(sender, msg.from)
            t == msg.token_id
            bal == AmountOf(balances[<<f, t>>])
            sup == AmountOf(token_supplies[t])
        IN r.ok =>
              /\ r.st.balances = [balances EXCEPT ![<<f, t>>] = Some(bal - msg.amount)]
              /\ r.st.token_supplies = [token_supplies EXCEPT ![t] = Some(sup - msg.amount)]
              /\ bal - msg.amount >= 0 /\ sup - msg.amount >= 0
              /\ bal = msg.amount =>
                    /\ r.st.balances[<<f, t>>] = Some(0)
                    /\ \A a \in 1..U128Max :
                          /\ ~burn(r.st, block, f, None, t, a).ok
                          /\ \A to \in Addrs : ~send(r.st, block, f, None, to, t, a).ok

\* alice holds 1 of A and bob the other 1 of the supply of 2: alice's Burn of her 1
\* leaves her balance 0, bob's 1 and the supply 1, and her next Send is refused for
\* lack of tokens
C21_Witness ==
    LET r == Result("alice", MsgBurn(None, "A", 1)) IN
    /\ balances[<<"alice", "A">>] = Some(1)
    /\ balances[<<"bob", "A">>] = Some(1)
    /\ token_supplies["A"] = Some(2)
    /\ r.ok
    /\ r.st.balances[<<"alice", "A">>] = Some(0)
    /\ r.st.balances[<<"bob", "A">>] = Some(1)
    /\ r.st.token_supplies["A"] = Some(1)
    /\ send(r.st, block, "alice", None, "bob", "A", 1).err = ErrNotEnoughTokens(0, 1)

\* the Send and Burn messages of a caller who is neither the owner nor a blanket
\* operator and whose stored per-token approval has passed its expiration
ExpiredApprovalSpend(sender, msg) ==
    LET from == ResolveFrom(sender, msg.from)
        stored == token_approves[<<msg.token_id, from, sender>>]
    IN /\ from # sender
       /\ ~verify_all_approval(Store, block, from, sender)
       /\ IsSome(stored)
       /\ ApprovalIsExpired(Unwrap(stored), block)

\* C22 (as amended): a Send or Burn by a caller who is neither the owner nor a
\* blanket operator, and whose stored per-token approval has passed its expiration,
\* fails with the not-found error of the approval and changes no state.
C22_ExpiredApprovalNotFound ==
    \A sender \in Addrs, msg \in SendFamily \cup BurnFamily :
        ExpiredApprovalSpend(sender, msg) =>
            LET r == Result(sender, msg) IN
            /\ ~r.ok
            /\ r.err = ErrStdNotFound("approval")
            /\ r.st = Store
            /\ HostCommit(Store, r) = Store

\* C22 (as stated): that Send or Burn fails with the Expired error and changes no
\* state.
C22_ExpiredApprovalExpired ==
    \A sender \in Addrs, msg \in SendFamily \cup BurnFamily :
        ExpiredApprovalSpend(sender, msg) =>
            LET r == Result(sender, msg) IN
            /\ ~r.ok
            /\ r.err = ErrExpired
            /\ HostCommit(Store, r) = Store

\* alice holds 1 of A and her approval of bob ran until height 1, which the chain
\* has reached: bob's Send and Burn of her token are refused as not found
C22_Witness ==
    /\ block.height = 1
    /\ balances[<<"alice", "A">>] = Some(1)
    /\ token_approves[<<"A", "alice", "bob">>] = Some(TokenApproval(1, AtHeight(1)))
    /\ ExpiredApprovalSpend("bob", MsgSend(Some("alice"), "carol", "A", 1))
    /\ Result("bob", MsgSend(Some("alice"), "carol", "A", 1)).err = ErrStdNotFound("approval")
    /\ Result("bob", MsgBurn(Some("alice"), "A", 1)).err = ErrStdNotFound("approval")


\* the caller is the owner or holds a non-expired blanket approval of the owner
ActsAsOwner(sender, owner) ==
    sender = owner \/ verify_all_approval(Store, block, owner, sender)

\* the caller holds a stored per-token approval that has not expired
HoldsActiveApproval(sender, owner, t) ==
    /\ IsSome(token_approves[<<t, owner, sender>>])
    /\ ~ApprovalIsExpired(Unwrap(token_approves[<<t, owner, sender>>]), block)

\* the amount the caller may move: the balance, capped by the per-token approval
\* when that is all the caller has
AuthorizedBound(sender, owner, t) ==
    LET bal == AmountOf(balances[<<owner, t>>])
    IN IF ActsAsOwner(sender, owner) THEN bal
       ELSE Min(Unwrap(token_approves[<<t, owner, sender>>]).amount, bal)

\* C23: for the owner or a non-expired blanket operator the bound is the owner's
\* balance, for a caller with only a non-expired per-token approval p it is
\* min(p, balance); a request above the bound fails with
\* NotEnoughTokens{available: bound, requested}, in verify_approval and in the Burn
\* that calls it, and a request at or below the bound passes authorization.
C23_NotEnoughTokensBound ==
    \A sender \in Addrs, owner \in Addrs, t \in TokenIds, amount \in 0..U128Max :
        (ActsAsOwner(sender, owner) \/ HoldsActiveApproval(sender, owner, t)) =>
            LET r == verify_approval(Store, block, sender, owner, t, amount)
                bound == AuthorizedBound(sender, owner, t)
            IN IF amount > bound
               THEN /\ ~r.ok
                    /\ r.err = ErrNotEnoughTokens(bound, amount)
                    /\ burn(Store, block, sender, Some(owner), t, amount).err = r.err
               ELSE /\ r.ok
                    /\ r.attrs = <<TokenAmount(t, amount)>>

\* alice holds 1 of A and bob's approval is for 2: his request for 2 is refused
\* with available 1, her own request for 2 likewise, and a request for 1 passes
C23_Witness ==
    /\ balances[<<"alice", "A">>] = Some(1)
    /\ ~ActsAsOwner("bob", "alice")
    /\ HoldsActiveApproval("bob", "alice", "A")
    /\ Unwrap(token_approves[<<"A", "alice", "bob">>]).amount = 2
    /\ verify_approval(Store, block, "bob", "alice", "A", 2).err = ErrNotEnoughTokens(1, 2)
    /\ verify_approval(Store, block, "alice", "alice", "A", 2).err = ErrNotEnoughTokens(1, 2)
    /\ verify_approval(Store, block, "bob", "alice", "A", 1).ok


\* the verb of the event a mint, send or burn message emits
VerbOf(msg) ==
    CASE msg.kind \in {"Mint", "MintBatch"} -> "mint"
      [] msg.kind \in {"Send", "SendBatch"} -> "transfer"
      [] msg.kind \in {"Burn", "BurnBatch"} -> "burn"

\* the number of token line items of a mint, send or burn message
LineItemCount(msg) ==
    CASE msg.kind \in {"Mint", "Send", "Burn"} -> 1
      [] msg.kind = "MintBatch" -> Len(msg.msgs)
      [] msg.kind \in {"SendBatch", "BurnBatch"} -> Len(msg.batch)

\* C24: every successful Mint, MintBatch, Send, SendBatch, Burn or BurnBatch
\* returns attributes whose first one is action = "<verb>_single" when the message
\* has exactly one line item and "<verb>_batch" when it has another number of them,
\* whichever entry point was called.
C24_ActionAttribute ==
    \A sender \in Addrs,
       msg \in MintFamily \cup MintBatchFamily \cup SendFamily \cup SendBatchFamily
                 \cup BurnFamily \cup BurnBatchFamily :
        LET r == Result(sender, msg) IN
        r.ok =>
            /\ Len(r.attrs) >= 1
            /\ r.attrs[1] = <<"action", VerbOf(msg) \o (IF LineItemCount(msg) = 1
                                                        THEN "_single" ELSE "_batch")>>

\* alice is the minter and holds 2 of A: her batches of one line item answer
\* "_single", her batch of two line items answers "_batch", and so for mints
C24_Witness ==
    /\ minter = "alice"
    /\ balances[<<"alice", "A">>] = Some(2)
    /\ token_supplies["A"] = Some(2)
    /\ Result("alice", MsgSendBatch(None, "bob", <<TokenAmount("A", 1)>>)).ok
    /\ Result("alice", MsgSendBatch(None, "bob", <<TokenAmount("A", 1)>>)).attrs[1]
          = <<"action", "transfer_single">>
    /\ Result("alice", MsgSendBatch(None, "bob",
                                    <<TokenAmount("A", 1), TokenAmount("A", 1)>>)).attrs[1]
          = <<"action", "transfer_batch">>
    /\ Result("alice", MsgBurnBatch(None, <<TokenAmount("A", 1)>>)).attrs[1]
          = <<"action", "burn_single">>
    /\ Result("alice", MsgBurn(None, "A", 1)).attrs[1] = <<"action", "burn_single">>


\* the Approve and ApproveAll messages whose expiration is given and has already
\* expired
ExpiredGrants ==
    {msg \in ApproveFamily \cup ApproveAllFamily :
        IsSome(msg.expires) /\ ExpirationIsExpired(Unwrap(msg.expires), block)}

\* the Approve and ApproveAll messages that give no expiration
OpenEndedGrants == {msg \in ApproveFamily \cup ApproveAllFamily : ~IsSome(msg.expires)}

\* the expiration a successful grant has stored
StoredExpiration(st, sender, msg) ==
    IF msg.kind = "Approve"
    THEN Unwrap(st.token_approves[<<msg.token_id, sender, msg.spender>>]).expiration
    ELSE Unwrap(st.approves[<<sender, msg.operator>>])

\* C25 (as amended): approve_token and approve_all with an expiration that is
\* already expired fail and store nothing; the error is Expired, except for an
\* approve_all whose operator is the caller, which fails with Unauthorized. A grant
\* without an expiration that succeeds stores an approval that never expires.
C25_ExpiredGrantRefused ==
    /\ \A sender \in Addrs, msg \in ExpiredGrants :
          LET r == Result(sender, msg) IN
          /\ ~r.ok
          /\ HostCommit(Store, r) = Store
          /\ r.err = IF msg.kind = "ApproveAll" /\ msg.operator = sender
                     THEN ErrUnauthorized("Operator cannot be the owner")
                     ELSE ErrExpired
    /\ \A sender \in Addrs, msg \in OpenEndedGrants :
          LET r == Result(sender, msg) IN
          r.ok => /\ StoredExpiration(r.st, sender, msg) = Never
                  /\ \A h \in 0..(MaxHeight + 1) :
                        ~ExpirationIsExpired(StoredExpiration(r.st, sender, msg),
                                             [block EXCEPT !.height = h])

\* C25 (as stated): approve_token and approve_all with an expiration that is
\* already expired fail with the Expired error and store nothing; a grant without
\* an expiration stores an approval that never expires.
C25_ExpiredGrantExpired ==
    /\ \A sender \in Addrs, msg \in ExpiredGrants :
          LET r == Result(sender, msg) IN
          /\ ~r.ok
          /\ HostCommit(Store, r) = Store
          /\ r.err = ErrExpired
    /\ \A sender \in Addrs, msg \in OpenEndedGrants :
          LET r == Result(sender, msg) IN
          r.ok => StoredExpiration(r.st, sender, msg) = Never

\* at height 1 alice's grants to bob that end at height 1 are refused as Expired,
\* her blanket grant to herself as Unauthorized, and her grants without an
\* expiration are stored as never expiring
C25_Witness ==
    /\ block.height = 1
    /\ Result("alice", MsgApprove("bob", "A", 1, Some(AtHeight(1)))).err = ErrExpired
    /\ Result("alice", MsgApproveAll("bob", Some(AtHeight(1)))).err = ErrExpired
    /\ Result("alice", MsgApproveAll("alice", Some(AtHeight(1)))).err
          = ErrUnauthorized("Operator cannot be the owner")
    /\ Result("alice", MsgApprove("bob", "A", 1, None)).st.token_approves[<<"A", "alice", "bob">>]
          = Some(TokenApproval(1, Never))
    /\ Result("alice", MsgApproveAll("bob", None)).st.approves[<<"alice", "bob">>] = Some(Never)


\* the batch lists, for some token, more in total than from holds
Overdrawn(sender, msg) ==
    \E t \in TokenIds :
        Moved(msg, t) > AmountOf(balances[<<ResolveFrom(sender, msg.from), t>>])

\* every line item of the batch is positive and passes authorization by itself
EachLinePasses(sender, msg) ==
    /\ verify_approvals(Store, block, sender, ResolveFrom(sender, msg.from), msg.batch).ok
    /\ \A i \in 1..Len(msg.batch) : msg.batch[i].amount > 0

\* C26: a SendBatch or BurnBatch whose line items for one token sum to more than
\* from's balance fails and leaves the committed state unchanged; when every line
\* alone is within the balance and authorized, the failure is the arithmetic error
\* of the debit. No balance and no supply is ever below zero.
C26_OverdrawnBatchFails ==
    /\ \A sender \in Addrs, msg \in SendBatchFamily \cup BurnBatchFamily :
          LET r == Result(sender, msg) IN
          Overdrawn(sender, msg) =>
              /\ ~r.ok
              /\ HostCommit(Store, r) = Store
              /\ EachLinePasses(sender, msg) => r.err = ErrStdOverflow
    /\ \A a \in Addrs, t \in TokenIds : AmountOf(balances[<<a, t>>]) >= 0
    /\ \A t \in TokenIds : AmountOf(token_supplies[t]) >= 0

\* alice holds 1 of A: her batches of twice 1 of A pass authorization line by line,
\* fail in the debit after its first write, and commit nothing
C26_Witness ==
    LET twice == <<TokenAmount("A", 1), TokenAmount("A", 1)>>
        r == Result("alice", MsgSendBatch(None, "bob", twice))
    IN /\ balances[<<"alice", "A">>] = Some(1)
       /\ Overdrawn("alice", MsgSendBatch(None, "bob", twice))
       /\ EachLinePasses("alice", MsgSendBatch(None, "bob", twice))
       /\ r.err = ErrStdOverflow
       /\ r.st.balances[<<"alice", "A">>] = Some(0)
       /\ HostCommit(Store, r) = Store
       /\ Result("alice", MsgBurnBatch(None, twice)).err = ErrStdOverflow


\* the panic of update_balances when neither from nor to is given
BothAbsentPanic == ErrPanic("Invalid transfer: from and to cannot both be None")

\* C27: no message dispatched by execute, from any caller in any reachable state,
\* ends in the panic update_balances raises when both from and to are absent.
C27_BothAbsentUnreachable ==
    \A sender \in Addrs, msg \in AllMessages :
        LET r == Result(sender, msg) IN
        r.ok \/ r.err # BothAbsentPanic

\* alice holds 1 of A: her Burn and BurnBatch that name no from are carried out on
\* her own balance, although update_balances given neither address would panic
C27_Witness ==
    /\ balances[<<"alice", "A">>] = Some(1)
    /\ Result("alice", MsgBurn(None, "A", 1)).ok
    /\ Result("alice", MsgBurnBatch(None, <<TokenAmount("A", 1)>>)).ok
    /\ Result("alice", MsgBurnBatch(None, <<TokenAmount("A", 1)>>)).st.balances[<<"alice", "A">>]
          = Some(0)
    /\ ~update_balances(Store, block, "alice", None, None, <<TokenAmount("A", 1)>>).ok
    /\ update_balances(Store, block, "alice", None, None, <<TokenAmount("A", 1)>>).err
          = BothAbsentPanic


\* the Send, SendBatch, Burn and BurnBatch messages
SpendMessages == SendFamily \cup SendBatchFamily \cup BurnFamily \cup BurnBatchFamily

\* the caller holds a non-expired blanket approval of from, or a non-expired
\* per-token approval of from for some token
HoldsSomeApproval(sender, from) ==
    \/ verify_all_approval(Store, block, from, sender)
    \/ \E t \in TokenIds : HoldsActiveApproval(sender, from, t)

\* C28: a Send, SendBatch, Burn or BurnBatch whose from differs from the caller
\* succeeds only if the caller holds a non-expired blanket approval or a non-expired
\* per-token approval from that address, whatever the batch, the empty one included.
C28_SpendNeedsApproval ==
    \A sender \in Addrs, msg \in SpendMessages :
        LET from == ResolveFrom(sender, msg.from) IN
        (from # sender /\ Result(sender, msg).ok) => HoldsSomeApproval(sender, from)


\* the operator has a stored approval of the owner, per-token or blanket, that has
\* expired, and no approval of the owner that has not
OnlyExpiredApprovals(operator, owner) ==
    /\ operator # owner
    /\ ~HoldsSomeApproval(operator, owner)
    /\ \/ IsSome(approves[<<owner, operator>>])
       \/ \E t \in TokenIds : IsSome(token_approves[<<t, owner, operator>>])

\* no call of the operator on the owner's tokens changes a balance of the owner
OwnerBalancesKept(operator, owner) ==
    \A msg \in SpendMessages :
        ResolveFrom(operator, msg.from) = owner =>
            \A t \in TokenIds :
                HostCommit(Store, Result(operator, msg)).balances[<<owner, t>>]
                    = balances[<<owner, t>>]

\* a per-token approval that has expired is, one step later, absent or still
\* expired, unless that step commits a grant of the owner for the same key
ExpiredTokenApprovalStays ==
    \A k \in DOMAIN token_approves :
        (IsSome(token_approves[k]) /\ ApprovalIsExpired(Unwrap(token_approves[k]), block)) =>
            \/ ~IsSome(token_approves'[k])
            \/ ApprovalIsExpired(Unwrap(token_approves'[k]), block')
            \/ \E msg \in ApproveFamily :
                  /\ msg.token_id = k[1] /\ msg.spender = k[3]
                  /\ Result(k[2], msg).ok
                  /\ token_approves'[k] = Result(k[2], msg).st.token_approves[k]

\* the same for a blanket approval
ExpiredOperatorApprovalStays ==
    \A k \in DOMAIN approves :
        (IsSome(approves[k]) /\ ExpirationIsExpired(Unwrap(approves[k]), block)) =>
            \/ ~IsSome(approves'[k])
            \/ ExpirationIsExpired(Unwrap(approves'[k]), block')
            \/ \E msg \in ApproveAllFamily :
                  /\ msg.operator = k[2]
                  /\ Result(k[1], msg).ok
                  /\ approves'[k] = Result(k[1], msg).st.approves[k]

\* C29: in every state in which the approvals an operator has of an owner have all
\* expired, no Send, SendBatch, Burn or BurnBatch of the operator on the owner's
\* tokens changes a balance of the owner; and an expired approval stays expired or
\* is removed in every step, except by a new grant of the owner.
C29_ExpiredApprovalMovesNothing ==
    /\ [](\A operator \in Addrs, owner \in Addrs :
            OnlyExpiredApprovals(operator, owner) => OwnerBalancesKept(operator, owner))
    /\ [][ExpiredTokenApprovalStays /\ ExpiredOperatorApprovalStays]_vars

\* alice holds 1 of A and her blanket approval of bob ran until height 1, which
\* the chain has reached: bob's Send and Burn of her token are refused
C29_Witness ==
    /\ block.height = 1
    /\ balances[<<"alice", "A">>] = Some(1)
    /\ approves[<<"alice", "bob">>] = Some(AtHeight(1))
    /\ OnlyExpiredApprovals("bob", "alice")
    /\ ~Result("bob", MsgSend(Some("alice"), "bob", "A", 1)).ok
    /\ ~Result("bob", MsgBurn(Some("alice"), "A", 1)).ok
    /\ OwnerBalancesKept("bob", "alice")


\* C30: a Send, SendBatch, Burn or BurnBatch whose from is the caller leaves every
\* TokenApproval and every OperatorApproval entry as it was, the approvals the
\* caller has granted on the moved tokens included.
C30_OwnSpendKeepsApprovals ==
    \A sender \in Addrs, msg \in SpendMessages :
        ResolveFrom(sender, msg.from) = sender =>
            LET r == Result(sender, msg) IN
            /\ r.st.token_approves = token_approves
            /\ r.st.approves = approves
            /\ HostCommit(Store, r).token_approves = token_approves
            /\ HostCommit(Store, r).approves = approves

\* alice holds 1 of A and has approved bob for it: she sends it away, or burns it,
\* herself, and bob's approval is still stored
C30_Witness ==
    /\ balances[<<"alice", "A">>] = Some(1)
    /\ IsSome(token_approves[<<"A", "alice", "bob">>])
    /\ Result("alice", MsgSend(None, "carol", "A", 1)).ok
    /\ Result("alice", MsgSend(None, "carol", "A", 1)).st.balances[<<"alice", "A">>] = Some(0)
    /\ Result("alice", MsgSend(None, "carol", "A", 1)).st.token_approves[<<"A", "alice", "bob">>]
          = token_approves[<<"A", "alice", "bob">>]
    /\ Result("alice", MsgBurnBatch(Some("alice"), <<TokenAmount("A", 1)>>)).ok
    /\ Result("alice", MsgBurnBatch(Some("alice"), <<TokenAmount("A", 1)>>)).st.token_approves
          = token_approves


\* the panic of update_balances when the balance it debits is not stored
UnwrapPanic == ErrPanic("balance.unwrap()")

\* the message passes authorization and its first line item is positive, so that
\* update_balances reaches the decrement of from's balance
ReachesDecrement(sender, msg) ==
    LET items == LineItems(msg) IN
    /\ Len(items) >= 1
    /\ items[1].amount > 0
    /\ verify_approvals(Store, block, sender, ResolveFrom(sender, msg.from), items).ok

\* C32: no Send, SendBatch, Burn or BurnBatch ends in the panic of the unwrap of
\* from's balance: authorization of a positive amount requires a stored balance of
\* at least that amount, and the debit rejects a zero amount before it reads the
\* balance, stored or not.
C32_BalanceUnwrapNeverPanics ==
    /\ \A sender \in Addrs, msg \in SpendMessages :
          LET r == Result(sender, msg) IN r.ok \/ r.err # UnwrapPanic
    /\ \A sender \in Addrs, owner \in Addrs, t \in TokenIds, amount \in 1..U128Max :
          verify_approval(Store, block, sender, owner, t, amount).ok =>
              /\ IsSome(balances[<<owner, t>>])
              /\ Unwrap(balances[<<owner, t>>]) >= amount
    /\ \A from \in Addrs, t \in TokenIds :
          DebitLoop(Store, from, <<TokenAmount(t, 0)>>, 1).err = ErrInvalidZeroAmount

\* alice holds 1 of A and carol has no balance entry for it: alice's Send reaches
\* the decrement of a stored balance, carol's Send of 1 is refused in authorization
\* and her batch of 0 as a zero amount, though the debit itself would panic for her
C32_Witness ==
    /\ balances[<<"alice", "A">>] = Some(1)
    /\ ~IsSome(balances[<<"carol", "A">>])
    /\ ReachesDecrement("alice", MsgSend(None, "bob", "A", 1))
    /\ Result("alice", MsgSend(None, "bob", "A", 1)).ok
    /\ Result("carol", MsgSend(None, "bob", "A", 1)).err = ErrNotEnoughTokens(0, 1)
    /\ Result("carol", MsgBurnBatch(None, <<TokenAmount("A", 0)>>)).err = ErrInvalidZeroAmount
    /\ DebitLoop(Store, "carol", <<TokenAmount("A", 1)>>, 1).err = UnwrapPanic


\* a per-token approval entry has been created, or its amount raised or its
\* expiration changed; and it has been lowered, with its expiration kept, or deleted
TokenApprovalRaised(old, new) ==
    /\ IsSome(new)
    /\ new # old
    /\ \/ ~IsSome(old)
       \/ Unwrap(new).amount > Unwrap(old).amount
       \/ Unwrap(new).expiration # Unwrap(old).expiration
TokenApprovalLowered(old, new) ==
    /\ IsSome(old)
    /\ \/ ~IsSome(new)
       \/ /\ Unwrap(new).amount < Unwrap(old).amount
          /\ Unwrap(new).expiration = Unwrap(old).expiration

\* what one call, as the host commits it, may do to the approvals: the entries of
\* an owner are created, raised or given another expiration only by that owner's
\* Approve or ApproveAll naming the operator; another address changes no blanket
\* entry, and a per-token entry only by lowering or deleting it as its operator in
\* a spend of the owner's token
ApprovalsGuarded(sender, msg) ==
    LET c == HostCommit(Store, Result(sender, msg)) IN
    \/ c.token_approves = token_approves /\ c.approves = approves
    \/ /\ \A k \in DOMAIN token_approves :
             LET old == token_approves[k]
                 new == c.token_approves[k]
             IN /\ TokenApprovalRaised(old, new) =>
                      /\ msg.kind = "Approve"
                      /\ sender = k[2] /\ msg.spender = k[3] /\ msg.token_id = k[1]
                /\ (new # old /\ sender # k[2]) =>
                      /\ sender = k[3]
                      /\ msg.kind \in {"Send", "SendBatch", "Burn", "BurnBatch"}
                      /\ ResolveFrom(sender, msg.from) = k[2]
                      /\ Moved(msg, k[1]) > 0
                      /\ TokenApprovalLowered(old, new)
       /\ \A k \in DOMAIN approves :
             LET old == approves[k]
                 new == c.approves[k]
             IN /\ (new # old /\ IsSome(new)) =>
                      /\ msg.kind = "ApproveAll"
                      /\ sender = k[1] /\ msg.operator = k[2]
                /\ sender # k[1] => new = old

\* the calls that grant and revoke approvals, and every call of the token ledger
ApprovalMessages == ApproveFamily \cup RevokeFamily \cup ApproveAllFamily \cup RevokeAllFamily
LedgerMessages ==
    MintFamily \cup MintBatchFamily \cup SendFamily \cup SendBatchFamily \cup BurnFamily
        \cup BurnBatchFamily \cup ApprovalMessages

\* what one call, as the host commits it, leaves alone when it is an Approve,
\* Revoke, ApproveAll or RevokeAll
LedgerKept(sender, msg) ==
    LET c == HostCommit(Store, Result(sender, msg)) IN
    /\ c.balances = balances
    /\ c.token_supplies = token_supplies
    /\ c.tokens = tokens

\* C31: a TokenApproval entry (t, X, O) or OperatorApproval entry (X, O) is created,
\* or has its amount raised or its expiration changed, only by an Approve or
\* ApproveAll call of X; a call of another address can at most lower or delete a
\* TokenApproval entry, and only as the operator O spending X's tokens; and Approve,
\* Revoke, ApproveAll and RevokeAll change no balance, supply or TokenInfo.
C31_ApprovalsOnlyByOwner ==
    \A sender \in Addrs, msg \in LedgerMessages :
        /\ ApprovalsGuarded(sender, msg)
        /\ msg.kind \in {"Approve", "Revoke", "ApproveAll", "RevokeAll"} =>
              LedgerKept(sender, msg)

\* alice holds 2 of A and has approved bob for 2: bob's Send of 1 leaves him 1,
\* carol's calls leave the entry alone, alice's Approve gives it another expiration,
\* and alice's ApproveAll creates bob's blanket entry without moving a token
C31_Witness ==
    LET key == <<"A", "alice", "bob">> IN
    /\ block.height = 0
    /\ balances[<<"alice", "A">>] = Some(2)
    /\ token_approves[key] = Some(TokenApproval(2, Never))
    /\ ~IsSome(approves[<<"alice", "bob">>])
    /\ Result("bob", MsgSend(Some("alice"), "carol", "A", 1)).st.token_approves[key]
          = Some(TokenApproval(1, Never))
    /\ ~Result("carol", MsgRevoke("bob", "A", None)).ok
    /\ Result("carol", MsgApprove("bob", "A", 1, None)).st.token_approves[key]
          = token_approves[key]
    /\ Result("alice", MsgApprove("bob", "A", 2, Some(AtHeight(1)))).st.token_approves[key]
          = Some(TokenApproval(2, AtHeight(1)))
    /\ Result("alice", MsgApproveAll("bob", None)).st.approves[<<"alice", "bob">>] = Some(Never)
    /\ Result("alice", MsgApproveAll("bob", None)).st.balances = balances

====
